---- MODULE Spec2Model ----
(***************************************************************************)
(* JeevanFit: FoodClassifier (analyzers/food_classifier.py),               *)
(* WaterRetentionPredictor (analyzers/water_retention_predictor.py),       *)
(* TrendAnalyzer (analyzers/trend_analyzer.py), PrivacyController          *)
(* (privacy/privacy_controller.py) and InsightGenerator                    *)
(* (insights/insight_generator.py).                                        *)
(*                                                                         *)
(* The Python code computes on floats.  The model computes the same        *)
(* expressions exactly, on integers: an FSI parameter p in [0,1] is the    *)
(* integer p * ParamScale, a category score s in [0,1] is the integer      *)
(* s * ScoreScale, a confidence c in [0,100] is the integer c * ScoreScale.*)
(* The input sets hold values for which every division below is exact and  *)
(* no comparison of the code is decided by floating-point rounding.        *)
(***************************************************************************)
EXTENDS Integers, Sequences, FiniteSets, TLC

VARIABLES
    food_items,       \* FoodClassifier: the food item of each call
    classifications,  \* FoodClassifier: what classify_food returned to each call
    fsi_params,       \* FoodClassifier: what get_fsi_parameters returned to each call
    lifestyle,        \* WaterRetentionPredictor: the LifestyleInput of the call
    body_type,        \* WaterRetentionPredictor: the BodyType classification of the call
    prediction,       \* WaterRetentionPredictor: what predict_retention returned
    time_range,       \* TrendAnalyzer: the TimeRange of the call of analyze_trends
    data,             \* TrendAnalyzer: the data of the call of analyze_trends
    analysis,         \* TrendAnalyzer: the outcome of analyze_trends
    arguments,        \* TrendAnalyzer: the arguments of the call of detect_correlations
    correlation,      \* TrendAnalyzer: the outcome of detect_correlations
    alignment,        \* TrendAnalyzer: the aligned points detect_correlations computed
    _user_data_store, \* PrivacyController: the data stored for each user
    calls,            \* PrivacyController: the calls made so far, with what they returned
    candidates,       \* InsightGenerator: the insights of the call of prioritize_insights
    prioritized       \* InsightGenerator: what prioritize_insights returned

foodVars == <<food_items, classifications, fsi_params>>

retentionVars == <<lifestyle, body_type, prediction>>

trendVars == <<time_range, data, analysis>>

correlationVars == <<arguments, correlation, alignment>>

privacyVars == <<_user_data_store, calls>>

insightVars == <<candidates, prioritized>>

vars ==
    <<food_items, classifications, fsi_params, lifestyle, body_type, prediction,
      time_range, data, analysis, arguments, correlation, alignment,
      _user_data_store, calls, candidates, prioritized>>

----------------------------------------------------------------------------
(* Generic helpers *)

Min(a, b) == IF a <= b THEN a ELSE b

Max(a, b) == IF a >= b THEN a ELSE b

Abs(a) == IF a < 0 THEN -a ELSE a

\* str.join: the parts separated by sep
RECURSIVE Join(_, _)
Join(parts, sep) ==
    IF Len(parts) = 0 THEN ""
    ELSE IF Len(parts) = 1 THEN parts[1]
    ELSE parts[1] \o sep \o Join(Tail(parts), sep)

\* Python's "sub in s" on strings
Contains(s, sub) ==
    \E i \in 1..(Len(s) - Len(sub) + 1) : SubSeq(s, i, i + Len(sub) - 1) = sub

\* "x in list"
InList(x, list) == \E i \in 1..Len(list) : list[i] = x

\* f"{x}" of a float holding the integral value n
FloatStr(n) == ToString(n) \o ".0"

----------------------------------------------------------------------------
(* Scales of the exact arithmetic *)

\* least common multiple of the denominators 4, 5, 30 and 1000 of
\* get_fsi_parameters
ParamScale == 3 * 1000

\* the weights 0.4 0.3 0.2 0.15 0.075 are 16 12 8 6 3 fortieths
WeightScale == 8 * 5

ScoreScale == ParamScale * WeightScale

----------------------------------------------------------------------------
(* FoodCategory and the thresholds of FoodClassifier *)

HEALTHY == "healthy"

JUNK == "junk"

PRESERVATIVE_HEAVY == "preservative_heavy"

\* the keys of the scores dict, in insertion order
FoodCategory == <<HEALTHY, JUNK, PRESERVATIVE_HEAVY>>

NUTRIENT_DENSITY_HEALTHY_THRESHOLD == (7 * ParamScale) \div 10

NUTRIENT_DENSITY_JUNK_THRESHOLD == (3 * ParamScale) \div 10

PROCESSING_HEALTHY_MAX == 2

PROCESSING_JUNK_MIN == 4

PRESERVATIVE_COUNT_THRESHOLD == 3

SUGAR_JUNK_THRESHOLD == 15

SODIUM_JUNK_THRESHOLD == 600

----------------------------------------------------------------------------
(* Inputs: NutritionalInfo records (models/core.py).  carbohydrates, fat,   *)
(* and FoodItem's name, serving_size and unit are read by no analyzer.      *)

MaxPreservatives == 6

Preservative(i) == "preservative" \o ToString(i)

Preservatives(n) == [i \in 1..n |-> Preservative(i)]

ProcessingLevels == 1..5

CaloriesValues == {0, 1, 2, 100, 1000, 2000}

ProteinValues == {0, 2, 8, 31}

FiberValues == {0, 2, 3, 5}

SugarValues == {0, 15, 16, 30, 100}

SodiumValues == {0, 600, 601, 1000, 2000}

NutritionalInfo ==
    [calories : CaloriesValues, protein : ProteinValues, fiber : FiberValues,
     sugar : SugarValues, sodium : SodiumValues,
     preservatives : {Preservatives(n) : n \in 0..MaxPreservatives},
     processing_level : ProcessingLevels]

FoodItem == [nutritional_info : NutritionalInfo]

----------------------------------------------------------------------------
(* FoodClassifier *)

\* get_fsi_parameters with the min(1.0, ...) caps of sugar and sodium left out
Mut_get_fsi_parameters_NoCap(food_item) ==
    LET nutrition == food_item.nutritional_info
        nutrient_value == nutrition.protein + nutrition.fiber
        preservative_count == Len(nutrition.preservatives)
    IN  [nutrient_density |->
            IF nutrition.calories > 1
            THEN Min(ParamScale,
                     (ParamScale * 100 * nutrient_value) \div nutrition.calories)
            ELSE 0,
         processing_score |->
            ((5 - nutrition.processing_level) * ParamScale) \div 4,
         preservative_load |->
            Min(ParamScale, (preservative_count * ParamScale) \div 5),
         sugar_content |-> (nutrition.sugar * ParamScale) \div 30,
         sodium_level |-> (nutrition.sodium * ParamScale) \div 1000]

get_fsi_parameters(food_item) ==
    LET nutrition == food_item.nutritional_info
        nutrient_value == nutrition.protein + nutrition.fiber
        preservative_count == Len(nutrition.preservatives)
    IN  [nutrient_density |->
            IF nutrition.calories > 1
            THEN Min(ParamScale,
                     (ParamScale * 100 * nutrient_value) \div nutrition.calories)
            ELSE 0,
         processing_score |->
            ((5 - nutrition.processing_level) * ParamScale) \div 4,
         preservative_load |->
            Min(ParamScale, (preservative_count * ParamScale) \div 5),
         sugar_content |->
            Min(ParamScale, (nutrition.sugar * ParamScale) \div 30),
         sodium_level |->
            Min(ParamScale, (nutrition.sodium * ParamScale) \div 1000)]

\* _calculate_category_scores without the junk floor of 0.7 for a
\* processing level of 4 or more
Mut__calculate_category_scores_NoProcessingFloor(food_item, fsi) ==
    LET nutrition == food_item.nutritional_info
        healthy_score ==
            fsi.nutrient_density * 16
            + fsi.processing_score * 12
            + (ParamScale - fsi.preservative_load) * 6
            + (ParamScale - fsi.sugar_content) * 3
            + (ParamScale - fsi.sodium_level) * 3
        junk_score0 ==
            (ParamScale - fsi.nutrient_density) * 12
            + (ParamScale - fsi.processing_score) * 12
            + fsi.sugar_content * 8
            + fsi.sodium_level * 8
        preservative_score0 == fsi.preservative_load * WeightScale
        preservative_score ==
            IF Len(nutrition.preservatives) >= PRESERVATIVE_COUNT_THRESHOLD
            THEN Max(preservative_score0, (8 * ScoreScale) \div 10)
            ELSE preservative_score0
        junk_score2 ==
            IF nutrition.sugar > SUGAR_JUNK_THRESHOLD
            THEN Max(junk_score0, (6 * ScoreScale) \div 10)
            ELSE junk_score0
        junk_score ==
            IF nutrition.sodium > SODIUM_JUNK_THRESHOLD
            THEN Max(junk_score2, (6 * ScoreScale) \div 10)
            ELSE junk_score2
    IN  (HEALTHY :> healthy_score) @@ (JUNK :> junk_score)
        @@ (PRESERVATIVE_HEAVY :> preservative_score)

_calculate_category_scores(food_item, fsi) ==
    LET nutrition == food_item.nutritional_info
        healthy_score ==
            fsi.nutrient_density * 16
            + fsi.processing_score * 12
            + (ParamScale - fsi.preservative_load) * 6
            + (ParamScale - fsi.sugar_content) * 3
            + (ParamScale - fsi.sodium_level) * 3
        junk_score0 ==
            (ParamScale - fsi.nutrient_density) * 12
            + (ParamScale - fsi.processing_score) * 12
            + fsi.sugar_content * 8
            + fsi.sodium_level * 8
        preservative_score0 == fsi.preservative_load * WeightScale
        preservative_score ==
            IF Len(nutrition.preservatives) >= PRESERVATIVE_COUNT_THRESHOLD
            THEN Max(preservative_score0, (8 * ScoreScale) \div 10)
            ELSE preservative_score0
        junk_score1 ==
            IF nutrition.processing_level >= PROCESSING_JUNK_MIN
            THEN Max(junk_score0, (7 * ScoreScale) \div 10)
            ELSE junk_score0
        junk_score2 ==
            IF nutrition.sugar > SUGAR_JUNK_THRESHOLD
            THEN Max(junk_score1, (6 * ScoreScale) \div 10)
            ELSE junk_score1
        junk_score ==
            IF nutrition.sodium > SODIUM_JUNK_THRESHOLD
            THEN Max(junk_score2, (6 * ScoreScale) \div 10)
            ELSE junk_score2
    IN  (HEALTHY :> healthy_score) @@ (JUNK :> junk_score)
        @@ (PRESERVATIVE_HEAVY :> preservative_score)

\* max(scores, key=scores.get): the first key, in insertion order, whose
\* score no other key exceeds
MaxKey(scores) ==
    LET i == CHOOSE k \in 1..Len(FoodCategory) :
                 /\ \A j \in 1..Len(FoodCategory) :
                        scores[FoodCategory[j]] <= scores[FoodCategory[k]]
                 /\ \A j \in 1..(k - 1) :
                        scores[FoodCategory[j]] < scores[FoodCategory[k]]
    IN  FoodCategory[i]

\* _select_dominant_category without the two preservative checks: the plain
\* arg-max followed by the caution tie-break
Mut_select_NoPreservativeOverride(scores, food_item) ==
    LET max_category == MaxKey(scores)
        max_score == scores[max_category]
        score_threshold == (15 * ScoreScale) \div 100
    IN  IF /\ max_category = HEALTHY
           /\ Abs(scores[JUNK] - max_score) < score_threshold
        THEN JUNK
        ELSE max_category

\* _select_dominant_category with an ambiguity margin of 0.2 instead of 0.15
Mut_select_WiderMargin(scores, food_item) ==
    LET nutrition == food_item.nutritional_info
        max_category == MaxKey(scores)
        max_score == scores[max_category]
        score_threshold == (20 * ScoreScale) \div 100
    IN  IF Len(nutrition.preservatives) >= PRESERVATIVE_COUNT_THRESHOLD
        THEN PRESERVATIVE_HEAVY
        ELSE IF scores[PRESERVATIVE_HEAVY] >= (6 * ScoreScale) \div 10
        THEN PRESERVATIVE_HEAVY
        ELSE IF /\ max_category = HEALTHY
                /\ Abs(scores[JUNK] - max_score) < score_threshold
        THEN JUNK
        ELSE max_category

\* _select_dominant_category taking a preservative score of 0.4 (two
\* preservatives) as enough for PRESERVATIVE_HEAVY instead of 0.6
Mut_select_LowerPreservativeBar(scores, food_item) ==
    LET nutrition == food_item.nutritional_info
        max_category == MaxKey(scores)
        max_score == scores[max_category]
        score_threshold == (15 * ScoreScale) \div 100
    IN  IF Len(nutrition.preservatives) >= PRESERVATIVE_COUNT_THRESHOLD
        THEN PRESERVATIVE_HEAVY
        ELSE IF scores[PRESERVATIVE_HEAVY] >= (4 * ScoreScale) \div 10
        THEN PRESERVATIVE_HEAVY
        ELSE IF /\ max_category = HEALTHY
                /\ Abs(scores[JUNK] - max_score) < score_threshold
        THEN JUNK
        ELSE max_category

_select_dominant_category(scores, food_item) ==
    LET nutrition == food_item.nutritional_info
        max_category == MaxKey(scores)
        max_score == scores[max_category]
        score_threshold == (15 * ScoreScale) \div 100
    IN  IF Len(nutrition.preservatives) >= PRESERVATIVE_COUNT_THRESHOLD
        THEN PRESERVATIVE_HEAVY
        ELSE IF scores[PRESERVATIVE_HEAVY] >= (6 * ScoreScale) \div 10
        THEN PRESERVATIVE_HEAVY
        ELSE IF /\ max_category = HEALTHY
                /\ Abs(scores[JUNK] - max_score) < score_threshold
        THEN JUNK
        ELSE max_category

\* a rationale rule: the phrase and tag are appended when cond holds
Rule(cond, phrase, tag) == IF cond THEN <<[phrase |-> phrase, tag |-> tag]>> ELSE <<>>

\* the category's branch of _generate_rationale: the rationale text and the
\* tags of the rules that tripped
RationaleRules(category, food_item, fsi, scores) ==
    LET nutrition == food_item.nutritional_info
        healthy_rules ==
            Rule(fsi.nutrient_density >= NUTRIENT_DENSITY_HEALTHY_THRESHOLD,
                 "high nutrient density", "nutrient_density")
            \o Rule(nutrition.processing_level <= PROCESSING_HEALTHY_MAX,
                    "minimal processing", "low_processing")
            \o Rule(Len(nutrition.preservatives) = 0,
                    "no preservatives", "no_preservatives")
            \o Rule(nutrition.fiber >= 3, "good fiber content", "fiber")
        junk_rules ==
            Rule(nutrition.sugar > SUGAR_JUNK_THRESHOLD,
                 "high sugar content (" \o FloatStr(nutrition.sugar) \o "g)",
                 "high_sugar")
            \o Rule(nutrition.sodium > SODIUM_JUNK_THRESHOLD,
                    "high sodium (" \o FloatStr(nutrition.sodium) \o "mg)",
                    "high_sodium")
            \o Rule(nutrition.processing_level >= PROCESSING_JUNK_MIN,
                    "highly processed", "high_processing")
            \o Rule(fsi.nutrient_density < NUTRIENT_DENSITY_JUNK_THRESHOLD,
                    "low nutritional value", "low_nutrients")
        preservative_count == Len(nutrition.preservatives)
        preservative_list ==
            Join(SubSeq(nutrition.preservatives, 1, Min(3, preservative_count)), ", ")
            \o (IF preservative_count > 3
                THEN ", and " \o ToString(preservative_count - 3) \o " more"
                ELSE "")
        rules == IF category = HEALTHY THEN healthy_rules
                 ELSE IF category = JUNK THEN junk_rules
                 ELSE <<>>
        rationale_parts == [i \in 1..Len(rules) |-> rules[i].phrase]
        rationale ==
            IF category = HEALTHY
            THEN "Classified as healthy due to " \o Join(rationale_parts, ", ") \o "."
            ELSE IF category = JUNK
            THEN "Classified as junk food due to " \o Join(rationale_parts, ", ") \o "."
            ELSE "Classified as preservative-heavy due to "
                 \o ToString(preservative_count) \o " preservatives detected: "
                 \o preservative_list \o "."
        dominant_factors0 ==
            IF category \in {HEALTHY, JUNK}
            THEN [i \in 1..Len(rules) |-> rules[i].tag]
            ELSE <<"preservatives">>
                 \o (IF nutrition.processing_level >= PROCESSING_JUNK_MIN
                     THEN <<"high_processing">> ELSE <<>>)
    IN  [rationale |-> rationale, dominant_factors |-> dominant_factors0]

\* _generate_rationale without the "overall_composition" fallback
Mut_generate_rationale_NoFallback(category, food_item, fsi, scores) ==
    RationaleRules(category, food_item, fsi, scores)

_generate_rationale(category, food_item, fsi, scores) ==
    LET r == RationaleRules(category, food_item, fsi, scores)
    IN  [rationale |-> r.rationale,
         dominant_factors |->
            IF Len(r.dominant_factors) = 0
            THEN <<"overall_composition">>
            ELSE r.dominant_factors]

\* the maximum of a non-empty set of integers
SetMax(S) == CHOOSE m \in S : \A x \in S : x <= m

\* _calculate_confidence without the final clamp to [60, 95]
Mut_calculate_confidence_NoClamp(scores, category) ==
    LET other_scores == {scores[c] : c \in (DOMAIN scores) \ {category}}
        separation == scores[category] - SetMax(other_scores)
    IN  IF other_scores = {}
        THEN 95 * ScoreScale
        ELSE 60 * ScoreScale + separation * 70

\* _calculate_confidence mapping the size of the separation, whatever its
\* sign, to the confidence
Mut_calculate_confidence_AbsSeparation(scores, category) ==
    LET other_scores == {scores[c] : c \in (DOMAIN scores) \ {category}}
        separation == Abs(scores[category] - SetMax(other_scores))
        confidence == 60 * ScoreScale + separation * 70
    IN  IF other_scores = {}
        THEN 95 * ScoreScale
        ELSE Min(95 * ScoreScale, Max(60 * ScoreScale, confidence))

_calculate_confidence(scores, category) ==
    LET other_scores == {scores[c] : c \in (DOMAIN scores) \ {category}}
        separation == scores[category] - SetMax(other_scores)
        confidence == 60 * ScoreScale + separation * 70
    IN  IF other_scores = {}
        THEN 95 * ScoreScale
        ELSE Min(95 * ScoreScale, Max(60 * ScoreScale, confidence))

\* classify_food reporting an unknown category when the confidence is at
\* its floor
Mut_classify_food_UnknownWhenUnsure(food_item) ==
    LET fsi == get_fsi_parameters(food_item)
        scores == _calculate_category_scores(food_item, fsi)
        category == _select_dominant_category(scores, food_item)
        r == _generate_rationale(category, food_item, fsi, scores)
        confidence == _calculate_confidence(scores, category)
    IN  [category |-> IF confidence = 60 * ScoreScale THEN "unknown" ELSE category,
         confidence |-> confidence,
         rationale |-> r.rationale,
         dominant_factors |-> r.dominant_factors]

classify_food(food_item) ==
    LET fsi == get_fsi_parameters(food_item)
        scores == _calculate_category_scores(food_item, fsi)
        category == _select_dominant_category(scores, food_item)
        r == _generate_rationale(category, food_item, fsi, scores)
    IN  [category |-> category,
         confidence |-> _calculate_confidence(scores, category),
         rationale |-> r.rationale,
         dominant_factors |-> r.dominant_factors]

----------------------------------------------------------------------------
(* Calls of the classifier.  food_items holds the arguments of the calls   *)
(* in flight, classifications and fsi_params what each call returned.      *)

NoClassification ==
    [category |-> "none", confidence |-> 0, rationale |-> "",
     dominant_factors |-> <<>>]

NoFsi ==
    [nutrient_density |-> -1, processing_score |-> -1, preservative_load |-> -1,
     sugar_content |-> -1, sodium_level |-> -1]

ClassifyFood(i) ==
    /\ i \in DOMAIN food_items
    /\ classifications[i] = NoClassification
    /\ classifications' =
           [classifications EXCEPT ![i] = classify_food(food_items[i])]
    /\ UNCHANGED <<food_items, fsi_params, retentionVars, trendVars, correlationVars,
                   privacyVars, insightVars>>

GetFsiParameters(i) ==
    /\ i \in DOMAIN food_items
    /\ fsi_params[i] = NoFsi
    /\ fsi_params' = [fsi_params EXCEPT ![i] = get_fsi_parameters(food_items[i])]
    /\ UNCHANGED <<food_items, classifications, retentionVars, trendVars, correlationVars,
                   privacyVars, insightVars>>

----------------------------------------------------------------------------
(* WaterRetentionPredictor (analyzers/water_retention_predictor.py) *)

LOW == "low"

MODERATE == "moderate"

HIGH == "high"

SODIUM == "sodium"

HYDRATION == "hydration"

SLEEP == "sleep"

STRESS == "stress"

EXERCISE == "exercise"

ECTOMORPH == "ectomorph"

MESOMORPH == "mesomorph"

ENDOMORPH == "endomorph"

MIXED == "mixed"

BodyTypeClassification == {ECTOMORPH, MESOMORPH, ENDOMORPH, MIXED}

HIGH_SODIUM_THRESHOLD == 2000

MODERATE_SODIUM_THRESHOLD == 1500

LOW_WATER_THRESHOLD == 1500

OPTIMAL_WATER_MIN == 2000

OPTIMAL_WATER_MAX == 3500

VERY_HIGH_WATER_THRESHOLD == 4500

POOR_SLEEP_QUALITY_THRESHOLD == 5

POOR_SLEEP_DURATION_THRESHOLD == 6

HIGH_STRESS_INTENSITY == 7

\* BODY_TYPE_SENSITIVITY with the multipliers of ECTOMORPH and ENDOMORPH
\* exchanged
Mut_BODY_TYPE_SENSITIVITY_Swapped ==
    (ECTOMORPH :> 13) @@ (MESOMORPH :> 10) @@ (ENDOMORPH :> 8) @@ (MIXED :> 11)

\* the sensitivity multipliers 0.8 1.0 1.3 1.1, in tenths
BODY_TYPE_SENSITIVITY ==
    (ECTOMORPH :> 8) @@ (MESOMORPH :> 10) @@ (ENDOMORPH :> 13) @@ (MIXED :> 11)

(* Inputs: LifestyleInput records (models/core.py).  Of a food item the     *)
(* predictor reads the sodium only; sleep_data is Optional, modelled as a   *)
(* sequence of at most one SleepData.                                       *)

MaxFoodItems == 2

MaxHabits == 2

SeqsUpTo(S, n) == UNION {[1..k -> S] : k \in 0..n}

MealSodiumValues == {0, 750, 1000}

WaterIntakeValues == {1499, 1500, 1999, 2000, 3500, 3501, 4500, 4501}

SleepData == [quality : {5, 6}, duration : {5, 6}]

Habit ==
    [type : {STRESS}, intensity : {4, 5, 7}] \cup [type : {EXERCISE}, intensity : {7}]

LifestyleInput ==
    [food_items : SeqsUpTo([nutritional_info : [sodium : MealSodiumValues]], MaxFoodItems),
     water_intake : WaterIntakeValues,
     sleep_data : SeqsUpTo(SleepData, 1),
     daily_habits : SeqsUpTo(Habit, MaxHabits)]

RECURSIVE SumSodium(_)
SumSodium(items) ==
    IF Len(items) = 0 THEN 0
    ELSE Head(items).nutritional_info.sodium + SumSodium(Tail(items))

RECURSIVE SumImpact(_)
SumImpact(factors) ==
    IF Len(factors) = 0 THEN 0 ELSE Head(factors).impact + SumImpact(Tail(factors))

RetentionFactor(type, impact, description, recommendation) ==
    [type |-> type, impact |-> impact, description |-> description,
     recommendation |-> recommendation]

\* each _calculate_*_factor returns a sequence: empty for None

_calculate_sodium_factor(ls) ==
    LET total_sodium == SumSodium(ls.food_items)
        impact == IF total_sodium >= HIGH_SODIUM_THRESHOLD THEN 3
                  ELSE IF total_sodium >= MODERATE_SODIUM_THRESHOLD THEN 2
                  ELSE 0
        description ==
            IF total_sodium >= HIGH_SODIUM_THRESHOLD
            THEN "High sodium intake (" \o ToString(total_sodium)
                 \o "mg) significantly increases water retention as your body holds water to dilute sodium."
            ELSE IF total_sodium >= MODERATE_SODIUM_THRESHOLD
            THEN "Moderate sodium intake (" \o ToString(total_sodium)
                 \o "mg) may contribute to some water retention."
            ELSE "Sodium intake (" \o ToString(total_sodium)
                 \o "mg) is within healthy range and unlikely to cause significant water retention."
        recommendation ==
            IF total_sodium >= HIGH_SODIUM_THRESHOLD
            THEN "Reduce sodium intake by choosing fresh foods over processed ones, avoiding added salt, and reading nutrition labels carefully."
            ELSE IF total_sodium >= MODERATE_SODIUM_THRESHOLD
            THEN "Consider reducing sodium intake slightly by limiting processed foods and using herbs and spices for flavor instead of salt."
            ELSE "Continue maintaining balanced sodium intake."
    IN  IF impact > 0
        THEN <<RetentionFactor(SODIUM, impact, description, recommendation)>>
        ELSE <<>>

_calculate_hydration_factor(ls) ==
    LET water_intake == ls.water_intake
    IN  IF water_intake < LOW_WATER_THRESHOLD
        THEN <<RetentionFactor(HYDRATION, 2,
                 "Low water intake (" \o ToString(water_intake)
                 \o "ml) may cause your body to retain water as a protective mechanism.",
                 "Gradually increase water intake to 2000-3000ml per day. Drink water consistently throughout the day.")>>
        ELSE IF water_intake > VERY_HIGH_WATER_THRESHOLD
        THEN <<RetentionFactor(HYDRATION, 1,
                 "Very high water intake (" \o ToString(water_intake)
                 \o "ml) may contribute to slight water retention, though this is less common.",
                 "Consider moderating water intake to 2000-3500ml per day unless advised otherwise by a healthcare provider.")>>
        ELSE IF water_intake < OPTIMAL_WATER_MIN
        THEN <<RetentionFactor(HYDRATION, 1,
                 "Water intake (" \o ToString(water_intake)
                 \o "ml) is slightly below optimal and may contribute minimally to retention.",
                 "Try to increase water intake slightly to reach 2000ml per day.")>>
        ELSE <<>>

_calculate_sleep_factor(ls) ==
    IF Len(ls.sleep_data) = 0 THEN <<>>
    ELSE
    LET sleep == ls.sleep_data[1]
        poor_quality == sleep.quality <= POOR_SLEEP_QUALITY_THRESHOLD
        poor_duration == sleep.duration < POOR_SLEEP_DURATION_THRESHOLD
    IN  IF poor_quality /\ poor_duration
        THEN <<RetentionFactor(SLEEP, 2,
                 "Poor sleep quality (" \o ToString(sleep.quality)
                 \o "/10) and insufficient duration (" \o FloatStr(sleep.duration)
                 \o "h) disrupt hormonal balance, leading to increased water retention.",
                 "Prioritize 7-9 hours of quality sleep. Establish a consistent bedtime routine and create a comfortable sleep environment.")>>
        ELSE IF poor_quality
        THEN <<RetentionFactor(SLEEP, 2,
                 "Poor sleep quality (" \o ToString(sleep.quality)
                 \o "/10) can disrupt hormones that regulate fluid balance, contributing to water retention.",
                 "Focus on improving sleep quality through better sleep hygiene, reducing screen time before bed, and managing stress.")>>
        ELSE IF poor_duration
        THEN <<RetentionFactor(SLEEP, 1,
                 "Insufficient sleep duration (" \o FloatStr(sleep.duration)
                 \o "h) may affect fluid regulation hormones.",
                 "Aim for 7-9 hours of sleep per night to support healthy hormonal balance.")>>
        ELSE <<>>

_calculate_stress_factor(ls) ==
    LET stress_habits == SelectSeq(ls.daily_habits, LAMBDA h : h.type = STRESS)
        max_stress == SetMax({stress_habits[k].intensity : k \in 1..Len(stress_habits)})
    IN  IF Len(stress_habits) = 0 THEN <<>>
        ELSE IF max_stress >= HIGH_STRESS_INTENSITY
        THEN <<RetentionFactor(STRESS, 2,
                 "High stress levels (intensity " \o ToString(max_stress)
                 \o "/10) trigger cortisol release, which can increase water retention and bloating.",
                 "Practice stress management techniques such as meditation, deep breathing, regular exercise, or talking to a counselor.")>>
        ELSE IF max_stress >= 5
        THEN <<RetentionFactor(STRESS, 1,
                 "Moderate stress levels (intensity " \o ToString(max_stress)
                 \o "/10) may contribute slightly to water retention through cortisol.",
                 "Consider incorporating stress-reduction activities into your daily routine, such as walking, yoga, or mindfulness.")>>
        ELSE <<>>

\* list.sort(key=impact, reverse=True): a stable sort, so factors of equal
\* impact keep their order
RECURSIVE SortByImpactDesc(_)
SortByImpactDesc(factors) ==
    IF Len(factors) <= 1 THEN factors
    ELSE LET x == factors[Len(factors)]
             sorted == SortByImpactDesc(SubSeq(factors, 1, Len(factors) - 1))
             before == SelectSeq(sorted, LAMBDA f : f.impact >= x.impact)
             after == SelectSeq(sorted, LAMBDA f : f.impact < x.impact)
         IN  before \o <<x>> \o after

analyze_retention_factors(ls) ==
    SortByImpactDesc(_calculate_sodium_factor(ls)
                     \o _calculate_hydration_factor(ls)
                     \o _calculate_sleep_factor(ls)
                     \o _calculate_stress_factor(ls))

\* max(factors, key=impact) keeping the last of the factors of maximum
\* impact instead of the first
Mut_MaxByImpact_Last(factors) ==
    LET k == CHOOSE i \in 1..Len(factors) :
                 /\ \A j \in 1..Len(factors) : factors[j].impact <= factors[i].impact
                 /\ \A j \in (i + 1)..Len(factors) : factors[j].impact < factors[i].impact
    IN  factors[k]

\* max(factors, key=impact): the first factor no other factor exceeds
MaxByImpact(factors) ==
    LET k == CHOOSE i \in 1..Len(factors) :
                 /\ \A j \in 1..Len(factors) : factors[j].impact <= factors[i].impact
                 /\ \A j \in 1..(i - 1) : factors[j].impact < factors[i].impact
    IN  factors[k]

\* adjusted_score is carried in tenths
_generate_explanation(level, primary_factor, all_factors, bt, adjusted_score) ==
    LET level_description ==
            IF level = LOW THEN "low water retention"
            ELSE IF level = MODERATE THEN "moderate water retention"
            ELSE "high water retention"
        other_factors ==
            SelectSeq(all_factors, LAMBDA f : f # primary_factor /\ f.impact >= 2)
        sensitivity == BODY_TYPE_SENSITIVITY[bt]
    IN  Join(<<"Based on your lifestyle factors, you are experiencing "
                 \o level_description \o ".",
               "The primary contributing factor is " \o primary_factor.type \o ": "
                 \o primary_factor.description>>
             \o (IF Len(other_factors) > 0
                 THEN <<"Additional contributing factors include: "
                        \o Join([k \in 1..Len(other_factors) |-> other_factors[k].type], ", ")
                        \o ".">>
                 ELSE <<>>)
             \o (IF sensitivity > 10
                 THEN <<"Your " \o bt \o " body type may have increased sensitivity to water retention factors.">>
                 ELSE IF sensitivity < 10
                 THEN <<"Your " \o bt \o " body type typically has lower sensitivity to water retention factors.">>
                 ELSE <<>>),
             " ")

_calculate_retention_confidence(factors, adjusted_score) ==
    LET impacts == {factors[k].impact : k \in 1..Len(factors)}
        max_impact == SetMax(impacts)
        other_impacts == impacts \ {max_impact}
        base_confidence ==
            IF other_impacts = {} THEN 85
            ELSE 70 + (max_impact - SetMax(other_impacts)) * 10
        adjusted ==
            IF adjusted_score <= 10 \/ adjusted_score >= 70
            THEN base_confidence + 5
            ELSE base_confidence
    IN  IF Len(factors) = 0 THEN 60
        ELSE Min(95, Max(65, adjusted))

NeutralFactor ==
    RetentionFactor(HYDRATION, 1,
        "All lifestyle factors are within optimal ranges.",
        "Continue maintaining your current healthy habits.")

predict_retention(ls, bt) ==
    LET factors == analyze_retention_factors(ls)
        total_score == SumImpact(factors)
        sensitivity == BODY_TYPE_SENSITIVITY[bt]
        adjusted_score == total_score * sensitivity
        level == IF adjusted_score <= 20 THEN LOW
                 ELSE IF adjusted_score <= 50 THEN MODERATE
                 ELSE HIGH
        primary_factor ==
            IF Len(factors) > 0 THEN MaxByImpact(factors) ELSE NeutralFactor
    IN  [level |-> level,
         confidence |-> _calculate_retention_confidence(factors, adjusted_score),
         primary_factor |-> primary_factor,
         contributing_factors |-> factors,
         explanation |->
            _generate_explanation(level, primary_factor, factors, bt, adjusted_score)]

NoLifestyle ==
    [food_items |-> <<>>, water_intake |-> -1, sleep_data |-> <<>>,
     daily_habits |-> <<>>]

NoPrediction ==
    [level |-> "none", confidence |-> 0,
     primary_factor |-> RetentionFactor("none", 0, "", ""),
     contributing_factors |-> <<>>, explanation |-> ""]

PredictRetention ==
    /\ lifestyle # NoLifestyle
    /\ prediction = NoPrediction
    /\ prediction' = predict_retention(lifestyle, body_type)
    /\ UNCHANGED <<lifestyle, body_type, foodVars, trendVars, correlationVars,
                   privacyVars, insightVars>>

----------------------------------------------------------------------------
(* TrendAnalyzer (analyzers/trend_analyzer.py)                              *)
(*                                                                          *)
(* A time series is a sequence of <<timestamp, value>> pairs, a timestamp   *)
(* a day number and a value an integer.  The reals the code derives from a  *)
(* series are held exactly.  A rational is a fraction in lowest terms       *)
(* [num, den] with den > 0; den = 0 marks a division by zero.  With         *)
(* Covariation(xs, ys) = n * sum((x - mean x) * (y - mean y)), an integer,  *)
(* the code's sums of products of deviations are Covariation / n and its    *)
(* sample variance is Covariation(xs, xs) / (n * (n - 1)).  A comparison    *)
(* with a standard deviation is made on the squares.  Pattern.confidence is *)
(* held as confidence / 100.  A correlation strength, sign * factor *       *)
(* sqrt(pearson2), is held as those three parts.                            *)

INCREASING == "increasing"

DECREASING == "decreasing"

STABLE == "stable"

CYCLICAL == "cyclical"

LIKELY == "likely"

POSSIBLE == "possible"

UNLIKELY == "unlikely"

RECURSIVE Gcd(_, _)
Gcd(a, b) == IF b = 0 THEN a ELSE Gcd(b, a % b)

\* the fraction a / b (b # 0) in lowest terms
Frac(a, b) ==
    LET g == Gcd(Abs(a), Abs(b))
        s == IF b < 0 THEN -1 ELSE 1
    IN  [num |-> s * (a \div g), den |-> s * (b \div g)]

ZeroDivisionError == [num |-> 0, den |-> 0]

IsError(f) == f.den = 0

\* a / b as Python evaluates it
Div(a, b) == IF b = 0 THEN ZeroDivisionError ELSE Frac(a, b)

\* the product of two fractions, reduced before multiplying
FMul(f, g) ==
    IF IsError(f) \/ IsError(g) THEN ZeroDivisionError
    ELSE LET g1 == Gcd(Abs(f.num), g.den)
             g2 == Gcd(Abs(g.num), f.den)
         IN  [num |-> (f.num \div g1) * (g.num \div g2),
              den |-> (f.den \div g2) * (g.den \div g1)]

\* a / b against c / d for a, c >= 0 and b, d > 0: -1, 0 or 1.  The integer
\* parts are compared first and then, inverted, the fractional parts, so no
\* product is formed.
RECURSIVE CmpPos(_, _, _, _)
CmpPos(a, b, c, d) ==
    LET qa == a \div b
        qc == c \div d
        ra == a % b
        rc == c % d
    IN  IF qa # qc THEN (IF qa < qc THEN -1 ELSE 1)
        ELSE IF ra = 0 /\ rc = 0 THEN 0
        ELSE IF ra = 0 THEN -1
        ELSE IF rc = 0 THEN 1
        ELSE CmpPos(d, rc, b, ra)

\* f against g: -1, 0 or 1
FracCmp(f, g) ==
    IF f.num < 0 /\ g.num >= 0 THEN -1
    ELSE IF f.num >= 0 /\ g.num < 0 THEN 1
    ELSE IF f.num >= 0 THEN CmpPos(f.num, f.den, g.num, g.den)
    ELSE CmpPos(-g.num, g.den, -f.num, f.den)

FMin(f, g) == IF FracCmp(f, g) <= 0 THEN f ELSE g

FMax(f, g) == IF FracCmp(f, g) >= 0 THEN f ELSE g

RECURSIVE SumSeq(_)
SumSeq(s) == IF s = <<>> THEN 0 ELSE Head(s) + SumSeq(Tail(s))

\* n * sum((x - mean x) * (y - mean y)) = n * sum(x * y) - sum(x) * sum(y)
Covariation(xs, ys) ==
    Len(xs) * SumSeq([i \in 1..Len(xs) |-> xs[i] * ys[i]]) - SumSeq(xs) * SumSeq(ys)

\* [v for _, v in time_series]
Values(time_series) == [i \in 1..Len(time_series) |-> time_series[i][2]]

\* [t for t, _ in time_series]
Timestamps(time_series) == [i \in 1..Len(time_series) |-> time_series[i][1]]

\* what a method did: returned value (a sequence of no element for None, of
\* one element for an object) or raised exception
Returned(value) == [exception |-> "", value |-> value]

Raised(exception) == [exception |-> exception, value |-> <<>>]

\* self.significant_change_threshold
significant_change_threshold == Frac(3, 10)

\* the trend of the fitted line (numerator, denominator and ss_tot are n times
\* the code's) with the threshold at the whole deviation
Mut_TrendOf_WholeDeviation(numerator, denominator, ss_tot, n) ==
    LET slope == Div(numerator, denominator)
        threshold2 == Frac(ss_tot, n * (n - 1))
    IN  IF denominator = 0 THEN STABLE
        ELSE IF FracCmp(FMul(slope, slope), threshold2) < 0 THEN STABLE
        ELSE IF slope.num > 0 THEN INCREASING
        ELSE DECREASING

\* the trend of the fitted line: numerator, denominator and ss_tot are n
\* times the code's
TrendOf(numerator, denominator, ss_tot, n) ==
    LET slope == Div(numerator, denominator)
        \* the square of statistics.stdev(values) * 0.1
        threshold2 == Frac(ss_tot, 100 * n * (n - 1))
    IN  IF denominator = 0 THEN STABLE
        ELSE IF FracCmp(FMul(slope, slope), threshold2) < 0 THEN STABLE
        ELSE IF slope.num > 0 THEN INCREASING
        ELSE DECREASING

\* the confidence of the fitted line without the floor of 50
Mut_ConfidenceOf_NoFloor(numerator, denominator, ss_tot) ==
    LET slope == Div(numerator, denominator)
        r_squared ==
            IF ss_tot > 0 THEN FMul(slope, Div(numerator, ss_tot)) ELSE Frac(0, 1)
    IN  IF denominator = 0 THEN Frac(95, 100)
        ELSE FMin(Frac(100, 100), r_squared)

\* the confidence of the fitted line, as confidence / 100.
\* ss_res = ss_tot - slope * numerator, hence
\* r_squared = 1 - ss_res / ss_tot = slope * numerator / ss_tot
ConfidenceOf(numerator, denominator, ss_tot) ==
    LET slope == Div(numerator, denominator)
        r_squared ==
            IF ss_tot > 0 THEN FMul(slope, Div(numerator, ss_tot)) ELSE Frac(0, 1)
    IN  IF denominator = 0 THEN Frac(95, 100)
        ELSE FMax(Frac(50, 100), FMin(Frac(100, 100), r_squared))

_detect_pattern(metric, time_series, range) ==
    IF Len(time_series) < 3 THEN Returned(<<>>)
    ELSE
    LET values == Values(time_series)
        n == Len(values)
        x_values == [i \in 1..n |-> i - 1]
        numerator == Covariation(x_values, values)
        denominator == Covariation(x_values, x_values)
        ss_tot == Covariation(values, values)
        trend == TrendOf(numerator, denominator, ss_tot, n)
        confidence == ConfidenceOf(numerator, denominator, ss_tot)
    IN  IF IsError(confidence) THEN Raised("ZeroDivisionError")
        ELSE Returned(<<[metric |-> metric,
                         trend |-> trend,
                         confidence |-> confidence,
                         description |->
                             "The " \o metric \o " shows a " \o trend
                                 \o " trend over the analyzed period",
                         time_range |-> range]>>)

_detect_significant_change(metric, time_series) ==
    IF Len(time_series) < 7 THEN Returned(<<>>)
    ELSE
    LET values == Values(time_series)
        timestamps == Timestamps(time_series)
        midpoint == Len(values) \div 2
        \* baseline = total / midpoint
        total == SumSeq(SubSeq(values, 1, midpoint))
        change_pct(i) == Div(Abs(midpoint * values[i] - total), total)
        hits == {i \in (midpoint + 1)..Len(values) :
                    FracCmp(change_pct(i), significant_change_threshold) > 0}
    IN  IF total = 0 THEN Returned(<<>>)
        ELSE IF hits = {} THEN Returned(<<>>)
        ELSE LET i == CHOOSE k \in hits : \A j \in hits : k <= j
                 magnitude == Frac(midpoint * values[i] - total, midpoint)
                 direction == IF magnitude.num > 0 THEN "increased" ELSE "decreased"
                 \* int(change_pct * 100)
                 pct_change == (100 * change_pct(i).num) \div change_pct(i).den
             IN  Returned(<<[metric |-> metric,
                             change_point |-> timestamps[i],
                             magnitude |-> magnitude,
                             description |->
                                 metric \o " " \o direction \o " by "
                                     \o ToString(pct_change) \o "% from baseline",
                             possible_causes |-> <<>>]>>)

\* {t: v for t, v in data} keeping the first point of a timestamp instead of
\* the last
Mut_DictOf_FirstWins(series) ==
    [t \in {series[i][1] : i \in DOMAIN series} |->
        LET first == CHOOSE i \in DOMAIN series :
                         /\ series[i][1] = t
                         /\ \A j \in DOMAIN series : series[j][1] = t => i <= j
        IN  series[first][2]]

\* {t: v for t, v in data}: of the points of one timestamp the last one stays
DictOf(series) ==
    [t \in {series[i][1] : i \in DOMAIN series} |->
        LET last == CHOOSE i \in DOMAIN series :
                        /\ series[i][1] = t
                        /\ \A j \in DOMAIN series : series[j][1] = t => j <= i
        IN  series[last][2]]

\* sorted(S) of a set of timestamps
RECURSIVE Sorted(_)
Sorted(S) ==
    IF S = {} THEN <<>>
    ELSE LET least == CHOOSE t \in S : \A u \in S : t <= u
         IN  <<least>> \o Sorted(S \ {least})

_align_time_series(data1, data2) ==
    LET dict1 == DictOf(data1)
        dict2 == DictOf(data2)
        common_timestamps == Sorted(DOMAIN dict1 \cap DOMAIN dict2)
    IN  [k \in 1..Len(common_timestamps) |->
            <<common_timestamps[k], dict1[common_timestamps[k]],
              dict2[common_timestamps[k]]>>]

\* the strength 0.0
ZeroStrength ==
    [sign |-> 0, factor |-> Frac(1, 1), pearson2 |-> Frac(0, 1)]

\* the strength sign * factor * sqrt(pearson2)
Strength(sign, factor, pearson2) ==
    IF IsError(pearson2) THEN [sign |-> sign, factor |-> factor, pearson2 |-> pearson2]
    ELSE IF sign = 0 \/ pearson2.num = 0 THEN ZeroStrength
    ELSE [sign |-> sign, factor |-> factor, pearson2 |-> pearson2]

\* abs(strength) against a / b for a, b > 0: -1, 0 or 1
AbsCmp(strength, a, b) ==
    LET fn == strength.factor.num * b
        fd == strength.factor.den * a
    IN  CmpPos(strength.pearson2.num, strength.pearson2.den, fd * fd, fn * fn)

\* _calculate_correlation without its test of the denominator
Mut__calculate_correlation_Unguarded(values1, values2) ==
    IF Len(values1) # Len(values2) \/ Len(values1) < 2 THEN ZeroStrength
    ELSE LET n == Len(values1)
             numerator == Covariation(values1, values2)
         IN  Strength(IF numerator > 0 THEN 1 ELSE IF numerator < 0 THEN -1 ELSE 0,
                      Frac(n - 1, n),
                      FMul(Div(numerator, Covariation(values1, values1)),
                           Div(numerator, Covariation(values2, values2))))

\* _calculate_correlation dividing by std1 * std2 * (n - 1): the Pearson
\* coefficient
Mut__calculate_correlation_Pearson(values1, values2) ==
    IF Len(values1) # Len(values2) \/ Len(values1) < 2 THEN ZeroStrength
    ELSE LET n == Len(values1)
             numerator == Covariation(values1, values2)
             variance1 == Covariation(values1, values1)
             variance2 == Covariation(values2, values2)
         IN  IF variance1 = 0 \/ variance2 = 0 THEN ZeroStrength
             ELSE Strength(IF numerator > 0 THEN 1
                           ELSE IF numerator < 0 THEN -1 ELSE 0,
                           Frac(1, 1),
                           FMul(Div(numerator, variance1), Div(numerator, variance2)))

\* numerator / (std1 * std2 * n) with the sample deviations std1 and std2:
\* numerator = cov12 / n and std1 * std2 * n = sqrt(cov11 * cov22) / (n - 1),
\* so the quotient is ((n - 1) / n) * cov12 / sqrt(cov11 * cov22)
_calculate_correlation(values1, values2) ==
    IF Len(values1) # Len(values2) \/ Len(values1) < 2 THEN ZeroStrength
    ELSE LET n == Len(values1)
             numerator == Covariation(values1, values2)
             variance1 == Covariation(values1, values1)
             variance2 == Covariation(values2, values2)
         IN  IF variance1 = 0 \/ variance2 = 0 THEN ZeroStrength
             ELSE Strength(IF numerator > 0 THEN 1
                           ELSE IF numerator < 0 THEN -1 ELSE 0,
                           Frac(n - 1, n),
                           FMul(Div(numerator, variance1), Div(numerator, variance2)))

UpperCase == "ABCDEFGHIJKLMNOPQRSTUVWXYZ"

LowerCase == "abcdefghijklmnopqrstuvwxyz"

\* str.lower
RECURSIVE Lower(_)
Lower(s) ==
    IF Len(s) = 0 THEN ""
    ELSE LET c == SubSeq(s, 1, 1)
             at == {k \in 1..Len(UpperCase) : SubSeq(UpperCase, k, k) = c}
             l == IF at = {} THEN c
                  ELSE LET k == CHOOSE k \in at : TRUE IN SubSeq(LowerCase, k, k)
         IN  l \o Lower(SubSeq(s, 2, Len(s)))

\* the known causal relationships
causal_pairs ==
    (<<"caffeine", "sleep_quality">> :> LIKELY)
    @@ (<<"sodium", "water_retention">> :> LIKELY)
    @@ (<<"water_intake", "water_retention">> :> LIKELY)
    @@ (<<"sleep_quality", "stress">> :> POSSIBLE)
    @@ (<<"food_quality", "energy">> :> LIKELY)

\* _assess_causality without the look-up of the reversed pair
Mut__assess_causality_NoReverseKey(metric1, metric2, strength) ==
    LET pair_key == <<Lower(metric1), Lower(metric2)>>
    IN  IF pair_key \in DOMAIN causal_pairs THEN causal_pairs[pair_key]
        ELSE IF AbsCmp(strength, 7, 10) > 0 THEN POSSIBLE
        ELSE UNLIKELY

\* _assess_causality without the lower-casing of the metric names
Mut__assess_causality_CaseSensitive(metric1, metric2, strength) ==
    LET pair_key == <<metric1, metric2>>
        reverse_key == <<metric2, metric1>>
    IN  IF pair_key \in DOMAIN causal_pairs THEN causal_pairs[pair_key]
        ELSE IF reverse_key \in DOMAIN causal_pairs THEN causal_pairs[reverse_key]
        ELSE IF AbsCmp(strength, 7, 10) > 0 THEN POSSIBLE
        ELSE UNLIKELY

_assess_causality(metric1, metric2, strength) ==
    LET pair_key == <<Lower(metric1), Lower(metric2)>>
        reverse_key == <<Lower(metric2), Lower(metric1)>>
    IN  IF pair_key \in DOMAIN causal_pairs THEN causal_pairs[pair_key]
        ELSE IF reverse_key \in DOMAIN causal_pairs THEN causal_pairs[reverse_key]
        ELSE IF AbsCmp(strength, 7, 10) > 0 THEN POSSIBLE
        ELSE UNLIKELY

\* detect_correlations reporting every strength other than 0.0
Mut_detect_correlations_NoWeakFilter(user_id, metric1, metric2, data1, data2) ==
    IF Len(data1) < 3 \/ Len(data2) < 3 THEN Returned(<<>>)
    ELSE
    LET aligned_data == _align_time_series(data1, data2)
        values1 == [k \in 1..Len(aligned_data) |-> aligned_data[k][2]]
        values2 == [k \in 1..Len(aligned_data) |-> aligned_data[k][3]]
        strength == _calculate_correlation(values1, values2)
    IN  IF Len(aligned_data) < 3 THEN Returned(<<>>)
        ELSE IF strength.sign = 0 THEN Returned(<<>>)
        ELSE Returned(<<[metric1 |-> metric1,
                         metric2 |-> metric2,
                         strength |-> strength,
                         description |->
                             "A " \o (IF AbsCmp(strength, 7, 10) > 0 THEN "strong"
                                      ELSE "moderate")
                                 \o " " \o (IF strength.sign > 0 THEN "positive"
                                            ELSE "negative")
                                 \o " correlation exists between " \o metric1
                                 \o " and " \o metric2,
                         causality |-> _assess_causality(metric1, metric2, strength)]>>)

detect_correlations(user_id, metric1, metric2, data1, data2) ==
    IF Len(data1) < 3 \/ Len(data2) < 3 THEN Returned(<<>>)
    ELSE
    LET aligned_data == _align_time_series(data1, data2)
        values1 == [k \in 1..Len(aligned_data) |-> aligned_data[k][2]]
        values2 == [k \in 1..Len(aligned_data) |-> aligned_data[k][3]]
        strength == _calculate_correlation(values1, values2)
        causality == _assess_causality(metric1, metric2, strength)
        direction == IF strength.sign > 0 THEN "positive" ELSE "negative"
        strength_desc == IF AbsCmp(strength, 7, 10) > 0 THEN "strong" ELSE "moderate"
    IN  IF Len(aligned_data) < 3 THEN Returned(<<>>)
        ELSE IF IsError(strength.pearson2) THEN Raised("ZeroDivisionError")
        ELSE IF AbsCmp(strength, 3, 10) < 0 THEN Returned(<<>>)
        \* Correlation.strength is a Field(ge=-1, le=1)
        ELSE IF AbsCmp(strength, 1, 1) > 0 THEN Raised("ValidationError")
        ELSE Returned(<<[metric1 |-> metric1,
                         metric2 |-> metric2,
                         strength |-> strength,
                         description |->
                             "A " \o strength_desc \o " " \o direction
                                 \o " correlation exists between " \o metric1
                                 \o " and " \o metric2,
                         causality |-> causality]>>)

\* the concatenation of a sequence of sequences
RECURSIVE Flatten(_)
Flatten(seqs) == IF seqs = <<>> THEN <<>> ELSE Head(seqs) \o Flatten(Tail(seqs))

\* the first exception of a sequence of outcomes, "" when none raised
RECURSIVE FirstException(_)
FirstException(outcomes) ==
    IF outcomes = <<>> THEN ""
    ELSE IF Head(outcomes).exception # "" THEN Head(outcomes).exception
    ELSE FirstException(Tail(outcomes))

\* _detect_correlations examining every ordered pair of distinct entries, so
\* every unordered pair twice
Mut__detect_correlations_OrderedPairs(entries) ==
    Flatten([i \in 1..Len(entries) |->
        [d \in 1..(Len(entries) - 1) |->
            LET j == IF d < i THEN d ELSE d + 1
            IN  detect_correlations("", entries[i][1], entries[j][1],
                                    entries[i][2], entries[j][2])]])

\* data is a dict: a sequence of <<metric, time_series>> entries of distinct
\* metrics, in insertion order.  The outcomes of detect_correlations on
\* every pair of entries i < j, in the order of the two loops.
_detect_correlations(entries) ==
    Flatten([i \in 1..Len(entries) |->
        [d \in 1..(Len(entries) - i) |->
            detect_correlations("", entries[i][1], entries[i + d][1],
                                entries[i][2], entries[i + d][2])]])

analyze_trends(user_id, range, entries) ==
    LET analysed == SelectSeq(entries, LAMBDA e : Len(e[2]) >= 3)
        pattern == [k \in 1..Len(analysed) |->
                       _detect_pattern(analysed[k][1], analysed[k][2], range)]
        change == [k \in 1..Len(analysed) |->
                      _detect_significant_change(analysed[k][1], analysed[k][2])]
        visualizations ==
            [k \in 1..Len(analysed) |->
                [metric |-> analysed[k][1], data_points |-> analysed[k][2],
                 chart_type |-> "line"]]
        correlation_ == _detect_correlations(entries)
        exception == FirstException(pattern \o change \o correlation_)
    IN  IF exception # "" THEN Raised(exception)
        ELSE Returned(<<[patterns |-> Flatten([k \in 1..Len(pattern) |-> pattern[k].value]),
                         correlations |->
                             Flatten([k \in 1..Len(correlation_) |-> correlation_[k].value]),
                         significant_changes |->
                             Flatten([k \in 1..Len(change) |-> change[k].value]),
                         visualizations |-> visualizations]>>)

(* State: time_range and data are the arguments of a call of analyze_trends  *)
(* and analysis its outcome; arguments holds the metric1, metric2, data1 and *)
(* data2 of a call of detect_correlations and correlation its outcome.       *)

\* the outcome of a call that has not been made
Pending == [exception |-> "pending", value |-> <<>>]

\* the outcome kept where no call is made
NoCall == [exception |-> "no call", value |-> <<>>]

AnalyzeTrends ==
    /\ analysis = Pending
    /\ analysis' = analyze_trends("user", time_range, data)
    /\ UNCHANGED <<time_range, data, correlationVars, foodVars, retentionVars,
                   privacyVars, insightVars>>

DetectCorrelations ==
    /\ correlation = Pending
    /\ correlation' = detect_correlations("user", arguments.metric1, arguments.metric2,
                                           arguments.data1, arguments.data2)
    \* aligned_data, computed once both series have passed the length test
    /\ alignment' = IF Len(arguments.data1) < 3 \/ Len(arguments.data2) < 3
                    THEN <<>>
                    ELSE _align_time_series(arguments.data1, arguments.data2)
    /\ UNCHANGED <<arguments, trendVars, foodVars, retentionVars,
                   privacyVars, insightVars>>

(* Inputs.  A series built from values has the timestamps 0, 1, 2, ... of   *)
(* consecutive days, so a timestamp is also the index of its point.         *)

MaxSeriesLen == 7

MaxStepLen == 14

MaxLinearLen == 35

MaxCorrLen == 4

\* the series of the values, one per day from day first on
SeriesFrom(first, values) == [i \in 1..Len(values) |-> <<first + i - 1, values[i]>>]

SeriesOf(values) == SeriesFrom(0, values)

\* every sequence over S of a length in lengths
SeqsOfLen(S, lengths) == UNION {[1..n -> S] : n \in lengths}

SeriesValues == {-15, 0, 15}

\* any series of up to MaxSeriesLen points
ShortSeries == {SeriesOf(values) : values \in SeqsOfLen(SeriesValues, 0..MaxSeriesLen)}

StepValues == {-20, 0, 20, 26, 27}

\* n points, the first n \div 2 of them at one level and the others at another
StepSeries ==
    {SeriesOf([i \in 1..n |-> IF i <= n \div 2 THEN before ELSE after]) :
        n \in 7..MaxStepLen, before \in StepValues, after \in StepValues}

\* n points that rise or fall by a constant step
LinearSeries ==
    {SeriesOf([i \in 1..n |-> base + step * (i - 1)]) :
        n \in 7..MaxLinearLen, base \in {0, 10}, step \in {-2, -1, 1, 3}}

\* the series of the second metric of a dict of two
PairedSeries ==
    {SeriesFrom(first, [i \in 1..n |-> IF i <= n \div 2 THEN before ELSE after]) :
        first \in {0, 2}, n \in {2, 3, 7}, before \in {0, 10}, after \in {0, 10, 14}}
    \cup {SeriesOf([i \in 1..7 |-> 20 - 2 * i])}

\* the series of a dict of three metrics: a rising one, a falling one, one
\* with a change after its first half and one too short to analyse
FacadeSeries ==
    {SeriesOf(<<0, 10, 14>>), SeriesOf(<<14, 10, 0, 0>>),
     SeriesOf(<<10, 10, 10, 14, 14, 14, 14>>), SeriesOf(<<10, 0>>)}

\* the sequences of the entries in every order
Reorderings(entries) ==
    {[k \in 1..Len(entries) |-> entries[p[k]]] : p \in Permutations(1..Len(entries))}

\* the dicts of three metrics, in every insertion order
OrderedData ==
    UNION {Reorderings(<<<<"caffeine", s1>>, <<"Sleep_Quality", s2>>, <<"stress", s3>>>>) :
               s1 \in FacadeSeries, s2 \in FacadeSeries, s3 \in FacadeSeries}

TrendData ==
    {<<<<"test_metric", series>>>> :
        series \in ShortSeries \cup StepSeries \cup LinearSeries}
    \cup {<<<<"caffeine", s1>>, <<"Sleep_Quality", s2>>>> :
            s1 \in PairedSeries, s2 \in PairedSeries}
    \cup OrderedData

\* the arguments of detect_correlations: two metric names, a series of
\* consecutive days and a series that may start a day later, repeat a day or
\* come unsorted
MetricPairs ==
    {<<"caffeine", "sleep_quality">>, <<"Sleep_Quality", "Caffeine">>,
     <<"stress", "sleep_quality">>, <<"metric_a", "metric_b">>,
     <<"steps", "mood">>}

CorrValues == {0, 1}

CorrTimestamps ==
    {[i \in 1..n |-> i - 1] : n \in 2..MaxCorrLen}
    \cup {[i \in 1..n |-> i] : n \in 2..MaxCorrLen}
    \cup {[i \in 1..n |-> IF i = n THEN 0 ELSE i - 1] : n \in 3..MaxCorrLen}
    \cup {[i \in 1..n |-> n - i] : n \in 3..MaxCorrLen}

SecondSeries ==
    UNION {{[i \in 1..Len(ts) |-> <<ts[i], values[i]>>] :
                values \in [1..Len(ts) -> CorrValues]} : ts \in CorrTimestamps}

SmallCorrelationInput ==
    {[metric1 |-> names[1], metric2 |-> names[2],
      data1 |-> SeriesOf(values1), data2 |-> series2] :
        names \in MetricPairs,
        values1 \in SeqsOfLen(CorrValues, 2..MaxCorrLen),
        series2 \in SecondSeries}

\* two series over the same ten days, in tenths: A rises by 1.0 a day and B
\* is twice A plus a noise of -0.1, 0 or 0.1 that repeats after five days
LinearCorrelationInput ==
    {[metric1 |-> names[1], metric2 |-> names[2],
      data1 |-> SeriesOf([i \in 1..10 |-> 10 * i]),
      data2 |-> SeriesOf([i \in 1..10 |-> 20 * i + noise[((i - 1) % 5) + 1]])] :
        names \in {<<"metric_a", "metric_b">>, <<"sleep_quality", "stress">>},
        noise \in [1..5 -> {-1, 0, 1}]}

CorrelationInput == SmallCorrelationInput \cup LinearCorrelationInput

----------------------------------------------------------------------------
(* PrivacyController (privacy/privacy_controller.py)                        *)
(*                                                                          *)
(* _user_data_store is the dict of the controller: a function from the      *)
(* user ids that have an entry to the data stored for them.  A stored data  *)
(* dict is the set of its <<key, value>> items.  The controller keeps the   *)
(* object it was given and hands the same object out with an export; the    *)
(* model holds its value, which no operation of the controller changes.     *)
(* export_date and deletion_date, read from the clock, are left out.        *)

\* dict.get(user_id, {}) of a user without entry
EmptyData == {}

\* DataExport(user_id, data, format="JSON")
DataExport(user_id, exported, format) ==
    [user_id |-> user_id, data |-> exported, format |-> format]

\* DeletionConfirmation(user_id, status)
DeletionConfirmation(user_id, status) ==
    [user_id |-> user_id, status |-> status]

exportUserData(store, user_id) ==
    LET user_data == IF user_id \in DOMAIN store THEN store[user_id] ELSE EmptyData
    IN  DataExport(user_id, user_data, "JSON")

\* deleteUserData leaving the data of the user in the store
Mut_deleteUserData_KeepsData(store, user_id) ==
    [store |-> store,
     confirmation |-> DeletionConfirmation(user_id, "COMPLETED")]

\* deleteUserData emptying the whole store
Mut_deleteUserData_ClearsStore(store, user_id) ==
    [store |-> [v \in {} |-> EmptyData],
     confirmation |-> DeletionConfirmation(user_id, "COMPLETED")]

\* the store after the call and the confirmation returned
deleteUserData(store, user_id) ==
    [store |-> [v \in (DOMAIN store) \ {user_id} |-> store[v]],
     confirmation |-> DeletionConfirmation(user_id, "COMPLETED")]

\* the store after self._user_data_store[user_id] = data
_store_user_data(store, user_id, stored) ==
    [v \in (DOMAIN store) \cup {user_id} |->
        IF v = user_id THEN stored ELSE store[v]]

\* the store of a new controller
EmptyStore == [v \in {} |-> EmptyData]

\* number of calls made on one controller
MaxCalls == 4

UserIds == {"user123", "nonexistent"}

UserData == {EmptyData, {<<"test", "data">>}, {<<"test", "other">>, <<"age", "30">>}}

\* a call in the log: the method, its arguments and what it returned
Call(method, user_id, stored, returned) ==
    [method |-> method, user_id |-> user_id, data |-> stored, returned |-> returned]

StoreUserData(user_id, stored) ==
    /\ Len(calls) < MaxCalls
    /\ _user_data_store' = _store_user_data(_user_data_store, user_id, stored)
    /\ calls' = Append(calls, Call("_store_user_data", user_id, stored, <<>>))
    /\ UNCHANGED <<foodVars, retentionVars, trendVars, correlationVars, insightVars>>

ExportUserData(user_id) ==
    /\ Len(calls) < MaxCalls
    /\ calls' = Append(calls, Call("exportUserData", user_id, EmptyData,
                                   exportUserData(_user_data_store, user_id)))
    /\ UNCHANGED <<_user_data_store, foodVars, retentionVars, trendVars,
                   correlationVars, insightVars>>

DeleteUserData(user_id) ==
    /\ Len(calls) < MaxCalls
    /\ _user_data_store' = deleteUserData(_user_data_store, user_id).store
    /\ calls' = Append(calls, Call("deleteUserData", user_id, EmptyData,
                                   deleteUserData(_user_data_store, user_id).confirmation))
    /\ UNCHANGED <<foodVars, retentionVars, trendVars, correlationVars, insightVars>>

----------------------------------------------------------------------------
(* InsightGenerator.prioritize_insights (insights/insight_generator.py)     *)

\* s[:n]
Prefix(s, n) == SubSeq(s, 1, Min(n, Len(s)))

\* the insights of the list whose key is not the key of an earlier one
RECURSIVE FilterFrom(_, _)
FilterFrom(insights, seen_categories) ==
    IF insights = <<>> THEN <<>>
    ELSE LET insight == Head(insights)
             key == <<insight.category, Prefix(insight.title, 20)>>
         IN  IF key \notin seen_categories
             THEN <<insight>> \o FilterFrom(Tail(insights), seen_categories \cup {key})
             ELSE FilterFrom(Tail(insights), seen_categories)

_filter_redundant(insights) ==
    IF Len(insights) <= 1 THEN insights
    ELSE FilterFrom(insights, {})

priority_order == ("high" :> 3) @@ ("medium" :> 2) @@ ("low" :> 1)

\* key=lambda i: (priority_order[i.priority], i.actionable), as one number
SortKey(insight) ==
    2 * priority_order[insight.priority] + (IF insight.actionable THEN 1 ELSE 0)

\* sorted(..., reverse=True): by decreasing key, insights of one key in the
\* order of the list
RECURSIVE SortedDescending(_)
SortedDescending(insights) ==
    IF insights = <<>> THEN <<>>
    ELSE LET first == CHOOSE k \in 1..Len(insights) :
                          /\ \A j \in 1..Len(insights) :
                                 SortKey(insights[j]) <= SortKey(insights[k])
                          /\ \A j \in 1..(k - 1) :
                                 SortKey(insights[j]) < SortKey(insights[k])
         IN  <<insights[first]>>
             \o SortedDescending(SubSeq(insights, 1, first - 1)
                                 \o SubSeq(insights, first + 1, Len(insights)))

\* prioritize_insights sorting before it filters
Mut_prioritize_insights_SortFirst(insights) ==
    IF insights = <<>> THEN <<>>
    ELSE _filter_redundant(SortedDescending(insights))

prioritize_insights(insights) ==
    IF insights = <<>> THEN <<>>
    ELSE LET filtered_insights == _filter_redundant(insights)
         IN  SortedDescending(filtered_insights)

\* number of insights of a call
MaxInsights == 3

Titles == {"Food Classification Insight", "Food Classification Tips", "Hydration Status"}

Categories == {"Nutrition", "Hydration"}

Insight ==
    {[title |-> t, summary |-> "Summary", details |-> "Details",
      priority |-> pa[1], category |-> c, actionable |-> pa[2],
      related_insights |-> <<>>] :
        t \in Titles, c \in Categories,
        pa \in {<<"high", TRUE>>, <<"medium", FALSE>>, <<"low", TRUE>>}}

InsightLists == SeqsOfLen(Insight, 0..MaxInsights)

PrioritizeInsights ==
    /\ prioritized = Pending
    /\ prioritized' = Returned(prioritize_insights(candidates))
    /\ UNCHANGED <<candidates, foodVars, retentionVars, trendVars, correlationVars,
                   privacyVars>>

----------------------------------------------------------------------------
(* Specifications *)

NoPrivacyCall ==
    /\ _user_data_store = EmptyStore
    /\ calls = <<>>

NoInsightCall ==
    /\ candidates = <<>>
    /\ prioritized = NoCall

NoRetentionCall ==
    /\ lifestyle = NoLifestyle
    /\ body_type = "none"
    /\ prediction = NoPrediction

NoTrendCall ==
    /\ time_range = [start |-> 0, end |-> 0]
    /\ data = <<>>
    /\ analysis = NoCall

NoCorrelationCall ==
    /\ arguments = [metric1 |-> "", metric2 |-> "", data1 |-> <<>>, data2 |-> <<>>]
    /\ correlation = NoCall
    /\ alignment = <<>>

\* one call: one food item, classified and analysed
Init ==
    /\ food_items \in {<<f>> : f \in FoodItem}
    /\ classifications = <<NoClassification>>
    /\ fsi_params = <<NoFsi>>
    /\ NoRetentionCall
    /\ NoTrendCall
    /\ NoCorrelationCall
    /\ NoPrivacyCall
    /\ NoInsightCall

Next ==
    \/ ClassifyFood(1)
    \/ GetFsiParameters(1)

Spec == Init /\ [][Next]_vars

\* two calls, on any two items of a smaller input set (for the claims that
\* compare two classifications)
PairNutritionalInfo ==
    [calories : {100, 1000}, protein : {0, 8}, fiber : {0, 5},
     sugar : {0, 16, 30}, sodium : {0, 1000},
     preservatives : {Preservatives(n) : n \in {0, 2}},
     processing_level : {1, 3, 4}]

PairFoodItem == [nutritional_info : PairNutritionalInfo]

InitPair ==
    /\ food_items \in {<<f, g>> : f \in PairFoodItem, g \in PairFoodItem}
    /\ classifications = <<NoClassification, NoClassification>>
    /\ fsi_params = <<NoFsi, NoFsi>>
    /\ NoRetentionCall
    /\ NoTrendCall
    /\ NoCorrelationCall
    /\ NoPrivacyCall
    /\ NoInsightCall

NextPair == \E i \in 1..2 : ClassifyFood(i)

SpecPair == InitPair /\ [][NextPair]_vars

\* one call of predict_retention
InitRetention ==
    /\ lifestyle \in LifestyleInput
    /\ body_type \in BodyTypeClassification
    /\ prediction = NoPrediction
    /\ food_items = <<>>
    /\ classifications = <<>>
    /\ fsi_params = <<>>
    /\ NoTrendCall
    /\ NoCorrelationCall
    /\ NoPrivacyCall
    /\ NoInsightCall

NextRetention == PredictRetention

SpecRetention == InitRetention /\ [][NextRetention]_vars

\* one call of analyze_trends
InitTrend ==
    /\ time_range = [start |-> 0, end |-> MaxLinearLen]
    /\ data \in TrendData
    /\ analysis = Pending
    /\ NoCorrelationCall
    /\ NoPrivacyCall
    /\ NoInsightCall
    /\ NoRetentionCall
    /\ food_items = <<>>
    /\ classifications = <<>>
    /\ fsi_params = <<>>

NextTrend == AnalyzeTrends

SpecTrend == InitTrend /\ [][NextTrend]_vars

\* one call of detect_correlations
InitCorrelation ==
    /\ arguments \in CorrelationInput
    /\ correlation = Pending
    /\ alignment = <<>>
    /\ NoPrivacyCall
    /\ NoInsightCall
    /\ NoTrendCall
    /\ NoRetentionCall
    /\ food_items = <<>>
    /\ classifications = <<>>
    /\ fsi_params = <<>>

NextCorrelation == DetectCorrelations

SpecCorrelation == InitCorrelation /\ [][NextCorrelation]_vars

\* one controller, any calls of its three methods in any order
InitPrivacy ==
    /\ _user_data_store = EmptyStore
    /\ calls = <<>>
    /\ NoInsightCall
    /\ NoCorrelationCall
    /\ NoTrendCall
    /\ NoRetentionCall
    /\ food_items = <<>>
    /\ classifications = <<>>
    /\ fsi_params = <<>>

NextPrivacy ==
    \E user_id \in UserIds :
        \/ \E stored \in UserData : StoreUserData(user_id, stored)
        \/ ExportUserData(user_id)
        \/ DeleteUserData(user_id)

SpecPrivacy == InitPrivacy /\ [][NextPrivacy]_vars

\* one call of prioritize_insights
InitInsights ==
    /\ candidates \in InsightLists
    /\ prioritized = Pending
    /\ NoPrivacyCall
    /\ NoCorrelationCall
    /\ NoTrendCall
    /\ NoRetentionCall
    /\ food_items = <<>>
    /\ classifications = <<>>
    /\ fsi_params = <<>>

NextInsights == PrioritizeInsights

SpecInsights == InitInsights /\ [][NextInsights]_vars

----------------------------------------------------------------------------
(* Properties of FoodClassifier *)

Classified(i) == classifications[i] # NoClassification

Nutrition(i) == food_items[i].nutritional_info

Scores(i) == _calculate_category_scores(food_items[i], get_fsi_parameters(food_items[i]))

Calls == DOMAIN food_items

\* C2: every classification returned for a valid food item (zero calories
\* included) has a category among HEALTHY, JUNK and PRESERVATIVE_HEAVY.
Thm_C2_ClosedCategoryRange ==
    \A i \in Calls :
        Classified(i) =>
            classifications[i].category \in {"healthy", "junk", "preservative_heavy"}

Wit_C2_ZeroCalorieClassified ==
    \E i \in Calls :
        /\ Classified(i)
        /\ Nutrition(i).calories = 0
        /\ Nutrition(i).processing_level = 5
        /\ Len(Nutrition(i).preservatives) = 2
        /\ classifications[i].category = "junk"

\* the score separation the confidence is calibrated from: the score of the
\* returned category minus the larger score of the two other categories
Separation(i) ==
    LET c == classifications[i].category
        a == IF c = "healthy" THEN "junk" ELSE "healthy"
        b == IF c = "preservative_heavy" THEN "junk" ELSE "preservative_heavy"
        other == IF Scores(i)[a] >= Scores(i)[b] THEN Scores(i)[a] ELSE Scores(i)[b]
    IN  Scores(i)[c] - other

\* C3: the confidence of every classification is
\* clamp(60 + 70 * separation, 60, 95), hence within [60, 95]; and of two
\* classifications with the same category, the one with the larger
\* separation never has the smaller confidence.
Thm_C3_ConfidenceFromSeparation ==
    /\ \A i \in Calls :
           Classified(i) =>
               LET raw == 60 * ScoreScale + 70 * Separation(i)
                   conf == classifications[i].confidence
               IN  /\ conf >= 60 * ScoreScale
                   /\ conf <= 95 * ScoreScale
                   /\ raw < 60 * ScoreScale => conf = 60 * ScoreScale
                   /\ raw > 95 * ScoreScale => conf = 95 * ScoreScale
                   /\ (raw >= 60 * ScoreScale /\ raw <= 95 * ScoreScale) => conf = raw
    /\ \A i, j \in Calls :
           ( /\ Classified(i)
             /\ Classified(j)
             /\ classifications[i].category = classifications[j].category
             /\ Separation(i) >= Separation(j) )
           => classifications[i].confidence >= classifications[j].confidence

Wit_C3_LargerSeparationLargerConfidence ==
    \E i, j \in Calls :
        /\ Classified(i)
        /\ Classified(j)
        /\ classifications[i].category = classifications[j].category
        /\ Separation(i) > Separation(j)
        /\ Separation(j) > 0
        /\ classifications[i].confidence > classifications[j].confidence
        /\ classifications[i].confidence < 95 * ScoreScale

\* C4: every item with 3 or more preservatives is classified
\* PRESERVATIVE_HEAVY, whatever its healthy and junk scores, and its
\* dominant factors contain "preservatives".
Thm_C4_PreservativeOverride ==
    \A i \in Calls :
        (Classified(i) /\ Len(Nutrition(i).preservatives) >= 3) =>
            /\ classifications[i].category = "preservative_heavy"
            /\ InList("preservatives", classifications[i].dominant_factors)

Wit_C4_OverrideAgainstArgMax ==
    \E i \in Calls :
        /\ Classified(i)
        /\ Len(Nutrition(i).preservatives) = 3
        /\ Scores(i)["junk"] > Scores(i)["preservative_heavy"]
        /\ Scores(i)["junk"] > Scores(i)["healthy"]
        /\ classifications[i].category = "preservative_heavy"

\* a category stricter than HEALTHY whose score is less than 0.15 below the
\* healthy score
CloseStricter(i) ==
    {c \in {"junk", "preservative_heavy"} :
        20 * (Scores(i)["healthy"] - Scores(i)[c]) < 3 * ScoreScale}

HealthyIsArgMax(i) ==
    /\ Scores(i)["healthy"] >= Scores(i)["junk"]
    /\ Scores(i)["healthy"] >= Scores(i)["preservative_heavy"]

\* C5: whenever HEALTHY has the highest score and the score of a stricter
\* category (JUNK or PRESERVATIVE_HEAVY) is within 0.15 of it, the
\* classification returns such a stricter category and not HEALTHY.
Claim_C5_CautionTieBreak ==
    \A i \in Calls :
        (Classified(i) /\ HealthyIsArgMax(i) /\ CloseStricter(i) # {}) =>
            classifications[i].category \in CloseStricter(i)

\* the category-specific rules of _generate_rationale, from the thresholds
NutrientDensityAtLeast(i, tenths) ==
    /\ Nutrition(i).calories > 1
    /\ 1000 * (Nutrition(i).protein + Nutrition(i).fiber)
           >= tenths * Nutrition(i).calories

RuleTripped(i) ==
    LET n == Nutrition(i)
        c == classifications[i].category
    IN  \/ /\ c = "healthy"
           /\ \/ NutrientDensityAtLeast(i, 7)
              \/ n.processing_level <= 2
              \/ Len(n.preservatives) = 0
              \/ n.fiber >= 3
        \/ /\ c = "junk"
           /\ \/ n.sugar > 15
              \/ n.sodium > 600
              \/ n.processing_level >= 4
              \/ ~NutrientDensityAtLeast(i, 3)
        \/ /\ c = "preservative_heavy"
           /\ Len(n.preservatives) >= 3

\* C6: every classification has a non-empty rationale and at least one
\* dominant factor, and the tag "overall_composition" is present exactly
\* when no rule of the returned category tripped.
Thm_C6_RationaleAndFactors ==
    \A i \in Calls :
        Classified(i) =>
            /\ Len(classifications[i].rationale) > 0
            /\ Len(classifications[i].dominant_factors) >= 1
            /\ InList("overall_composition", classifications[i].dominant_factors)
                   <=> ~RuleTripped(i)

Wit_C6_GenericFallbackTag ==
    \E i \in Calls :
        /\ Classified(i)
        /\ classifications[i].category = "healthy"
        /\ ~RuleTripped(i)
        /\ classifications[i].dominant_factors = <<"overall_composition">>

\* the scenario of C7: minimally processed, no preservatives, fiber 5 and
\* nutrient density (protein + fiber) / (calories / 100) at least 0.7
Scenario_C7(i) ==
    /\ Nutrition(i).processing_level = 1
    /\ Len(Nutrition(i).preservatives) = 0
    /\ Nutrition(i).fiber = 5
    /\ Nutrition(i).calories > 0
    /\ 1000 * (Nutrition(i).protein + Nutrition(i).fiber) >= 7 * Nutrition(i).calories

Outcome_C7(i) ==
    /\ classifications[i].category = "healthy"
    /\ classifications[i].confidence >= 60 * ScoreScale
    /\ \/ Contains(classifications[i].rationale, "high nutrient density")
       \/ Contains(classifications[i].rationale, "minimal processing")

\* C7 as claimed: in that scenario, for any sugar and sodium, the item is
\* HEALTHY with confidence >= 60 and a rationale that mentions nutrient
\* density or minimal processing.
Claim_C7_HealthyScenarioAnySugarSodium ==
    \A i \in Calls : (Classified(i) /\ Scenario_C7(i)) => Outcome_C7(i)

\* C7 as amended: in that scenario, with more than 1 calorie and with sugar
\* and sodium not both above their junk thresholds (sugar <= 15 g or
\* sodium <= 600 mg), the item is HEALTHY with confidence >= 60 and a
\* rationale that mentions nutrient density or minimal processing.
Thm_C7_HealthyScenario ==
    \A i \in Calls :
        ( /\ Classified(i)
          /\ Scenario_C7(i)
          /\ Nutrition(i).calories > 1
          /\ (Nutrition(i).sugar <= 15 \/ Nutrition(i).sodium <= 600) )
        => Outcome_C7(i)

Wit_C7_HealthyDespiteJunkFloor ==
    \E i \in Calls :
        /\ Classified(i)
        /\ Scenario_C7(i)
        /\ Nutrition(i).calories > 1
        /\ Nutrition(i).sugar > 15
        /\ Nutrition(i).sodium = 600
        /\ 10 * (Nutrition(i).protein + Nutrition(i).fiber) = 7 * (Nutrition(i).calories \div 100)
        /\ Outcome_C7(i)

\* C8: the five FSI parameters returned by get_fsi_parameters lie in [0,1];
\* each of the three categories has exactly one score and it lies in [0,1],
\* the hard-threshold floors applied.
Thm_C8_ParametersAndScoresInUnitRange ==
    \A i \in Calls :
        /\ fsi_params[i] # NoFsi =>
               /\ DOMAIN fsi_params[i] =
                      {"nutrient_density", "processing_score", "preservative_load",
                       "sugar_content", "sodium_level"}
               /\ \A k \in DOMAIN fsi_params[i] :
                      fsi_params[i][k] >= 0 /\ fsi_params[i][k] <= ParamScale
        /\ DOMAIN Scores(i) = {"healthy", "junk", "preservative_heavy"}
        /\ \A c \in DOMAIN Scores(i) :
               Scores(i)[c] >= 0 /\ Scores(i)[c] <= ScoreScale

Wit_C8_FloorsApplied ==
    \E i \in Calls :
        /\ fsi_params[i] # NoFsi
        /\ fsi_params[i].sugar_content = ParamScale
        /\ Nutrition(i).sugar > 30
        /\ Len(Nutrition(i).preservatives) = 3
        /\ Nutrition(i).processing_level = 4
        /\ 10 * Scores(i)["preservative_heavy"] = 8 * ScoreScale
        /\ 10 * Scores(i)["junk"] = 7 * ScoreScale

----------------------------------------------------------------------------
(* Properties of WaterRetentionPredictor *)

Predicted == prediction # NoPrediction

\* the body-type multipliers of the claim, in tenths
ClaimedMultiplier(bt) ==
    IF bt = "ectomorph" THEN 8
    ELSE IF bt = "mesomorph" THEN 10
    ELSE IF bt = "mixed" THEN 11
    ELSE 13

\* ten times the total: the impacts of the returned contributing factors,
\* summed, times the multiplier
Total10 == SumImpact(prediction.contributing_factors) * ClaimedMultiplier(body_type)

Scenario_C9 ==
    /\ SumSodium(lifestyle.food_items) >= 2000
    /\ lifestyle.water_intake < 1500
    /\ Len(lifestyle.sleep_data) = 1
    /\ lifestyle.sleep_data[1].quality <= 5
    /\ lifestyle.sleep_data[1].duration < 6
    /\ \E k \in 1..Len(lifestyle.daily_habits) :
           /\ lifestyle.daily_habits[k].type = "stress"
           /\ lifestyle.daily_habits[k].intensity >= 7

\* C9: the level is LOW iff total <= 2, MODERATE iff 2 < total <= 5 and HIGH
\* iff total > 5, where total is the sum of the impacts of the retained
\* factors times the body-type multiplier; high sodium, low water, poor and
\* short sleep and high stress together give HIGH with at least 3 factors.
Thm_C9_RetentionLevelBands ==
    Predicted =>
        /\ prediction.level \in {"low", "moderate", "high"}
        /\ prediction.level = "low" <=> Total10 <= 20
        /\ prediction.level = "moderate" <=> (Total10 > 20 /\ Total10 <= 50)
        /\ prediction.level = "high" <=> Total10 > 50
        /\ Scenario_C9 =>
               /\ prediction.level = "high"
               /\ Len(prediction.contributing_factors) >= 3

Wit_C9_ScenarioHighForEctomorph ==
    /\ Predicted
    /\ Scenario_C9
    /\ body_type = "ectomorph"
    /\ Total10 = 72
    /\ prediction.level = "high"
    /\ Len(prediction.contributing_factors) = 4

\* the order in which analyze_retention_factors generates the factors
GenerationOrder(type) ==
    IF type = "sodium" THEN 1
    ELSE IF type = "hydration" THEN 2
    ELSE IF type = "sleep" THEN 3
    ELSE 4

\* C10: a non-empty contributing_factors holds the primary factor, no factor
\* has a larger impact, and of the factors of that impact the primary one is
\* the earliest generated (sodium, hydration, sleep, stress); with no
\* contributing factor the primary factor is a synthetic one of impact 1.
Thm_C10_PrimaryFactor ==
    Predicted =>
        LET fs == prediction.contributing_factors
            pf == prediction.primary_factor
        IN  IF Len(fs) > 0
            THEN /\ \E k \in 1..Len(fs) : fs[k] = pf
                 /\ \A j \in 1..Len(fs) :
                        /\ fs[j].impact <= pf.impact
                        /\ fs[j].impact = pf.impact =>
                               GenerationOrder(pf.type) <= GenerationOrder(fs[j].type)
            ELSE /\ pf.impact = 1
                 /\ pf.type \in {"sodium", "hydration", "sleep", "hormonal", "stress"}
                 /\ Len(pf.description) > 0

Wit_C10_TieBrokenByGenerationOrder ==
    /\ Predicted
    /\ Len(prediction.contributing_factors) = 3
    /\ prediction.primary_factor.type = "sleep"
    /\ prediction.primary_factor.impact = 2
    /\ \E j \in 1..3 :
           /\ prediction.contributing_factors[j].type = "stress"
           /\ prediction.contributing_factors[j].impact = 2
    /\ \E j \in 1..3 :
           /\ prediction.contributing_factors[j].type = "hydration"
           /\ prediction.contributing_factors[j].impact = 1

\* position of a retention level in the order LOW < MODERATE < HIGH
LevelRank(level) ==
    IF level = "low" THEN 1
    ELSE IF level = "moderate" THEN 2
    ELSE 3

\* position of a body type in the claimed order of sensitivity
SensitivityRank(bt) ==
    IF bt = "ectomorph" THEN 1
    ELSE IF bt = "mesomorph" THEN 2
    ELSE IF bt = "mixed" THEN 3
    ELSE 4

\* C11: for one lifestyle input the retention level does not decrease along
\* ECTOMORPH, MESOMORPH, MIXED, ENDOMORPH: the level returned for the body
\* type of the call is at least the level predicted for every less sensitive
\* body type and at most the level predicted for every more sensitive one.
Thm_C11_LevelMonotoneInSensitivity ==
    Predicted =>
        \A bt \in {"ectomorph", "mesomorph", "mixed", "endomorph"} :
            LET other == predict_retention(lifestyle, bt).level
            IN  /\ SensitivityRank(bt) <= SensitivityRank(body_type) =>
                       LevelRank(other) <= LevelRank(prediction.level)
                /\ SensitivityRank(bt) >= SensitivityRank(body_type) =>
                       LevelRank(other) >= LevelRank(prediction.level)

Wit_C11_EndomorphAboveEctomorph ==
    /\ Predicted
    /\ body_type = "endomorph"
    /\ prediction.level = "high"
    /\ predict_retention(lifestyle, "mixed").level = "moderate"
    /\ predict_retention(lifestyle, "ectomorph").level = "moderate"

----------------------------------------------------------------------------
(* Properties of TrendAnalyzer.analyze_trends *)

\* analyze_trends has returned
Analysed == analysis.exception = ""

Result == analysis.value[1]

PatternsFor(metric) ==
    {Result.patterns[k] : k \in {k \in 1..Len(Result.patterns) :
                                    Result.patterns[k].metric = metric}}

ChangesFor(metric) ==
    {Result.significant_changes[k] :
        k \in {k \in 1..Len(Result.significant_changes) :
                  Result.significant_changes[k].metric = metric}}

AllEqual(series) ==
    \A i \in 1..Len(series) : \A j \in 1..Len(series) : series[i][2] = series[j][2]

\* C12: a series of fewer than 3 points yields no Pattern, and a series of 3
\* or more points whose values are all equal yields a Pattern with trend
\* STABLE and confidence 95.
Claim_C12_ConstantSeriesStable ==
    Analysed =>
        \A k \in 1..Len(data) :
            LET metric == data[k][1]
                series == data[k][2]
            IN  /\ Len(series) < 3 => PatternsFor(metric) = {}
                /\ (Len(series) >= 3 /\ AllEqual(series)) =>
                       \E p \in PatternsFor(metric) :
                           /\ p.trend = "stable"
                           /\ p.confidence = Frac(95, 100)

\* every two neighbouring points of the series differ by step
ConstantStep(series, step) ==
    \A i \in 1..(Len(series) - 1) : series[i + 1][2] - series[i][2] = step

LinearSeriesDetected(maxLen) ==
    Analysed =>
        \A k \in 1..Len(data) :
            LET metric == data[k][1]
                series == data[k][2]
            IN  (Len(series) >= 7 /\ Len(series) <= maxLen) =>
                    LET step == series[2][2] - series[1][2]
                    IN  (step # 0 /\ ConstantStep(series, step)) =>
                            \E p \in PatternsFor(metric) :
                                p.trend = IF step > 0 THEN "increasing"
                                          ELSE "decreasing"

SeriesFor(metric) == data[CHOOSE k \in 1..Len(data) : data[k][1] = metric][2]

\* R squared of the least-squares line through the values, taken at their
\* indices 0, 1, 2, ...: the squared covariation over the product of the two
\* variations, and 0 for values that do not vary
RSquared(series) ==
    LET ys == [i \in 1..Len(series) |-> series[i][2]]
        xs == [i \in 1..Len(series) |-> i - 1]
        sxy == Abs(Covariation(xs, ys))
        sxx == Covariation(xs, xs)
        syy == Covariation(ys, ys)
    IN  IF syy = 0 THEN Frac(0, 1) ELSE FMul(Frac(sxy, sxx), Frac(sxy, syy))

\* C14: every Pattern has the confidence max(50, min(100, 100 * R squared)),
\* which lies in [50, 100], and a trend among INCREASING, DECREASING and
\* STABLE, never CYCLICAL (confidences are held as hundredths).
Thm_C14_ConfidenceAndTrendRange ==
    Analysed =>
        \A k \in 1..Len(Result.patterns) :
            LET p == Result.patterns[k]
                r2 == RSquared(SeriesFor(p.metric))
                half == [num |-> 1, den |-> 2]
                one == [num |-> 1, den |-> 1]
            IN  /\ p.confidence =
                       IF FracCmp(r2, half) <= 0 THEN half
                       ELSE IF FracCmp(r2, one) >= 0 THEN one
                       ELSE r2
                /\ 2 * p.confidence.num >= p.confidence.den
                /\ p.confidence.num <= p.confidence.den
                /\ p.trend \in {"increasing", "decreasing", "stable"}
                /\ p.trend # "cyclical"

Wit_C14_FlooredAndUnflooredConfidence ==
    /\ Analysed
    /\ Len(Result.patterns) = 2
    /\ Result.patterns[1].confidence = [num |-> 1, den |-> 2]
    /\ FracCmp(RSquared(SeriesFor(Result.patterns[1].metric)), [num |-> 1, den |-> 2]) < 0
    /\ FracCmp(Result.patterns[2].confidence, [num |-> 1, den |-> 2]) > 0
    /\ FracCmp(Result.patterns[2].confidence, [num |-> 1, den |-> 1]) < 0

\* the sum of the first count values of the series
BaselineTotal(series, count) == SumSeq([i \in 1..count |-> series[i][2]])

\* the positions of the second half whose value is more than 30% away from
\* the baseline total / count, relative to the size of the baseline
Deviating(series) ==
    LET count == Len(series) \div 2
        total == BaselineTotal(series, count)
    IN  {i \in (count + 1)..Len(series) :
            10 * Abs(count * series[i][2] - total) > 3 * Abs(total)}

\* C19: change detection returns nothing for fewer than 7 points; for 7 or
\* more points and a baseline b (the mean of the first half) other than 0 it
\* returns a Change iff some point of the second half has |value - b| / |b|
\* > 0.3, and then the change point is the timestamp of the first such point,
\* the magnitude is its value - b and the description says "increased" for a
\* positive magnitude and "decreased" for a negative one.
Claim_C19_ChangeDetection ==
    Analysed =>
        \A k \in 1..Len(data) :
            LET metric == data[k][1]
                series == data[k][2]
                count == Len(series) \div 2
                total == BaselineTotal(series, count)
                changes == ChangesFor(metric)
            IN  /\ Len(series) < 7 => changes = {}
                /\ (Len(series) >= 7 /\ total # 0) =>
                       /\ changes # {} <=> Deviating(series) # {}
                       /\ \A c \in changes :
                              LET first == CHOOSE i \in Deviating(series) :
                                               \A j \in Deviating(series) : i <= j
                                  above == count * series[first][2] - total
                              IN  /\ c.change_point = series[first][1]
                                  /\ c.magnitude.num * count = above * c.magnitude.den
                                  /\ above > 0 => Contains(c.description, "increased")
                                  /\ above < 0 => Contains(c.description, "decreased")

\* the timestamps the two series share
SharedTimestamps(series1, series2) ==
    {series1[i][1] : i \in 1..Len(series1)} \cap {series2[j][1] : j \in 1..Len(series2)}

\* the series has one value on all the timestamps of T
ConstantOn(series, T) ==
    \A i \in 1..Len(series) : \A j \in 1..Len(series) :
        (series[i][1] \in T /\ series[j][1] \in T) => series[i][2] = series[j][2]

CorrelationsFor(name1, name2) ==
    {Result.correlations[k] :
        k \in {k \in 1..Len(Result.correlations) :
                  /\ Result.correlations[k].metric1 = name1
                  /\ Result.correlations[k].metric2 = name2}}

\* C20: a call of analyze_trends ends without an exception; it reports no
\* correlation for two metrics of which one does not vary over their shared
\* timestamps, and no change for a metric whose baseline mean is 0.
Thm_C20_AbsenceNotError ==
    analysis # Pending =>
        /\ analysis.exception = ""
        /\ \A k \in 1..Len(data) :
               (Len(data[k][2]) >= 7
                    /\ BaselineTotal(data[k][2], Len(data[k][2]) \div 2) = 0) =>
                   ChangesFor(data[k][1]) = {}
        /\ \A i \in 1..Len(data) : \A j \in 1..Len(data) :
               LET shared == SharedTimestamps(data[i][2], data[j][2])
               IN  (i < j /\ (ConstantOn(data[i][2], shared)
                                \/ ConstantOn(data[j][2], shared))) =>
                       CorrelationsFor(data[i][1], data[j][1]) = {}

Wit_C20_ZeroVarianceAndZeroBaseline ==
    /\ Analysed
    /\ Len(data) = 2
    /\ Len(data[1][2]) = 7
    /\ Cardinality(SharedTimestamps(data[1][2], data[2][2])) >= 3
    /\ BaselineTotal(data[1][2], 3) = 0
    /\ data[1][2][7][2] # 0
    /\ ~ConstantOn(data[1][2], SharedTimestamps(data[1][2], data[2][2]))
    /\ ConstantOn(data[2][2], SharedTimestamps(data[1][2], data[2][2]))
    /\ Result.correlations = <<>>
    /\ ChangesFor(data[1][1]) = {}

----------------------------------------------------------------------------
(* Properties of TrendAnalyzer.detect_correlations *)

\* detect_correlations has returned a Correlation
Correlated == correlation.exception = "" /\ Len(correlation.value) = 1

\* C15: detect_correlations(m2, m1, B, A) ends as detect_correlations(m1, m2,
\* A, B) did: with a Correlation iff that call returned one, and then with
\* the same strength and the same causality label.
Thm_C15_CorrelationSymmetric ==
    correlation # Pending =>
        LET swapped == detect_correlations("user", arguments.metric2, arguments.metric1,
                                           arguments.data2, arguments.data1)
        IN  /\ swapped.exception = correlation.exception
            /\ Len(swapped.value) = Len(correlation.value)
            /\ Correlated =>
                   /\ swapped.value[1].strength = correlation.value[1].strength
                   /\ swapped.value[1].causality = correlation.value[1].causality

Wit_C15_LabelFromReversedPair ==
    /\ Correlated
    /\ arguments.metric1 = "stress"
    /\ arguments.metric2 = "sleep_quality"
    /\ correlation.value[1].causality = "possible"
    /\ AbsCmp(correlation.value[1].strength, 7, 10) < 0
    /\ correlation.value[1].strength.sign = -1

\* the strength computed from the values the two series have on their shared
\* timestamps
ComputedStrength ==
    LET aligned == _align_time_series(arguments.data1, arguments.data2)
    IN  _calculate_correlation([k \in 1..Len(aligned) |-> aligned[k][2]],
                               [k \in 1..Len(aligned) |-> aligned[k][3]])

\* C16: detect_correlations returns a Correlation iff the two series share at
\* least 3 timestamps and the computed strength is at least 0.3 in absolute
\* value, and None otherwise; a returned strength lies in [-1, 1].
Thm_C16_CorrelationThreshold ==
    correlation # Pending =>
        LET shared == SharedTimestamps(arguments.data1, arguments.data2)
        IN  /\ correlation.exception = ""
            /\ Len(correlation.value) \in {0, 1}
            /\ Len(correlation.value) = 1 <=>
                   (Cardinality(shared) >= 3 /\ AbsCmp(ComputedStrength, 3, 10) >= 0)
            /\ Correlated =>
                   /\ correlation.value[1].strength = ComputedStrength
                   /\ AbsCmp(correlation.value[1].strength, 1, 1) <= 0

Wit_C16_ThreeSharedOfFour ==
    /\ Correlated
    /\ Len(arguments.data1) = 4
    /\ Len(arguments.data2) = 4
    /\ Cardinality(SharedTimestamps(arguments.data1, arguments.data2)) = 3
    /\ AbsCmp(correlation.value[1].strength, 3, 10) > 0
    /\ AbsCmp(correlation.value[1].strength, 1, 2) < 0

\* the curated causal relationships of the claim
CuratedLabel ==
    (<<"caffeine", "sleep_quality">> :> "likely")
    @@ (<<"sodium", "water_retention">> :> "likely")
    @@ (<<"water_intake", "water_retention">> :> "likely")
    @@ (<<"sleep_quality", "stress">> :> "possible")
    @@ (<<"food_quality", "energy">> :> "likely")

\* the lower-cased metric pair is curated, in one order or the other
Curated ==
    \/ <<Lower(arguments.metric1), Lower(arguments.metric2)>> \in DOMAIN CuratedLabel
    \/ <<Lower(arguments.metric2), Lower(arguments.metric1)>> \in DOMAIN CuratedLabel

\* two series over the same 10 timestamps, in tenths: B is within 0.1 of
\* twice A, and A spreads over 9.0
LinearScenario ==
    LET A == arguments.data1
        B == arguments.data2
    IN  /\ Len(A) = 10
        /\ Len(B) = 10
        /\ \A i \in 1..10 :
               /\ A[i][1] = B[i][1]
               /\ Abs(B[i][2] - 2 * A[i][2]) <= 1
        /\ \A i \in 1..10 : \A j \in 1..10 : i # j => A[i][1] # A[j][1]
        /\ \E i \in 1..10 : \E j \in 1..10 : A[i][2] - A[j][2] >= 90

\* C17: for two series over the same 10 timestamps with B = 2 * A + e,
\* |e| <= 0.1, and A spread far wider than the noise, detect_correlations
\* returns a Correlation of strength above 0.9, whose causality is POSSIBLE
\* when the metric names are not a curated pair.
Claim_C17_LinearStrengthAbove09 ==
    (correlation # Pending /\ LinearScenario) =>
        /\ Correlated
        /\ correlation.value[1].strength.sign = 1
        /\ AbsCmp(correlation.value[1].strength, 9, 10) > 0
        /\ ~Curated => correlation.value[1].causality = "possible"

\* C18: the causality label of a returned Correlation is the curated label of
\* the lower-cased metric pair, looked up in either order, whatever the
\* strength; for any other pair it is POSSIBLE iff |strength| > 0.7 and
\* UNLIKELY iff |strength| <= 0.7.  The description says "strong" iff
\* |strength| > 0.7 and "moderate" otherwise, "positive" iff strength > 0 and
\* "negative" otherwise.
Thm_C18_CausalityAndDescription ==
    Correlated =>
        LET c == correlation.value[1]
            key == <<Lower(arguments.metric1), Lower(arguments.metric2)>>
            reverse == <<Lower(arguments.metric2), Lower(arguments.metric1)>>
            strong == AbsCmp(c.strength, 7, 10) > 0
        IN  /\ key \in DOMAIN CuratedLabel => c.causality = CuratedLabel[key]
            /\ (key \notin DOMAIN CuratedLabel /\ reverse \in DOMAIN CuratedLabel) =>
                   c.causality = CuratedLabel[reverse]
            /\ ~Curated =>
                   /\ c.causality = "possible" <=> strong
                   /\ c.causality = "unlikely" <=> ~strong
            /\ Contains(c.description, "strong") <=> strong
            /\ Contains(c.description, "moderate") <=> ~strong
            /\ Contains(c.description, "positive") <=> c.strength.sign > 0
            /\ Contains(c.description, "negative") <=> c.strength.sign <= 0

Wit_C18_CuratedLabelForModerateStrength ==
    /\ Correlated
    /\ arguments.metric1 = "Sleep_Quality"
    /\ arguments.metric2 = "Caffeine"
    /\ correlation.value[1].causality = "likely"
    /\ AbsCmp(correlation.value[1].strength, 7, 10) < 0
    /\ Contains(correlation.value[1].description, "moderate negative")

----------------------------------------------------------------------------
(* Hydration band (WaterRetentionPredictor._calculate_hydration_factor)     *)

HydrationFactors ==
    SelectSeq(prediction.contributing_factors,
              LAMBDA factor : factor.type = HYDRATION)

\* C24: a prediction carries a HYDRATION factor whenever the water intake
\* lies outside the optimal band [2000 ml, 3500 ml], that is for every
\* intake below 2000 ml and every intake above 3500 ml, and carries no
\* HYDRATION factor for an intake inside the band.
Claim_C24_HydrationOutsideOptimalBand ==
    prediction # NoPrediction =>
        ((Len(HydrationFactors) > 0)
            <=> (lifestyle.water_intake < 2000 \/ lifestyle.water_intake > 3500))

----------------------------------------------------------------------------
(* Category selection and confidence (FoodClassifier)                       *)

Thm_C26_HighlyProcessedNeverHealthy ==
    \A i \in Calls :
        (Classified(i) /\ Nutrition(i).processing_level >= 4) =>
            /\ 10 * Scores(i)["junk"] >= 7 * ScoreScale
            /\ 20 * (Scores(i)["healthy"] - Scores(i)["junk"]) < 3 * ScoreScale
            /\ classifications[i].category \in {"junk", "preservative_heavy"}

Wit_C26_HealthyArgMaxTurnedJunk ==
    \E i \in Calls :
        /\ Classified(i)
        /\ Nutrition(i).processing_level = 4
        /\ 10 * Scores(i)["junk"] = 7 * ScoreScale
        /\ Scores(i)["healthy"] > Scores(i)["junk"]
        /\ Len(Nutrition(i).preservatives) = 0
        /\ classifications[i].category = "junk"

\* the returned category does not have the highest of the three scores
NotArgMax(i) ==
    \E c \in {"healthy", "junk", "preservative_heavy"} :
        Scores(i)[c] > Scores(i)[classifications[i].category]

\* C27: whenever the returned category does not have the highest score (the
\* tie-break turned a HEALTHY arg-max into JUNK, or a preservative override
\* won against a higher score), the confidence is exactly 60.
Thm_C27_ConfidenceFloorWhenNotArgMax ==
    \A i \in Calls :
        (Classified(i) /\ NotArgMax(i)) =>
            classifications[i].confidence = 60 * ScoreScale

Wit_C27_TieBreakAtFloor ==
    \E i \in Calls :
        /\ Classified(i)
        /\ classifications[i].category = "junk"
        /\ Scores(i)["healthy"] > Scores(i)["junk"]
        /\ Nutrition(i).processing_level = 1
        /\ classifications[i].confidence = 60 * ScoreScale

----------------------------------------------------------------------------
(* Alignment and the bound of the strength (TrendAnalyzer)                  *)

\* the value of the last point of the series with timestamp t
LastValueAt(series, t) ==
    LET last == CHOOSE i \in 1..Len(series) :
                    /\ series[i][1] = t
                    /\ \A j \in (i + 1)..Len(series) : series[j][1] # t
    IN  series[last][2]

\* the series has two points of one timestamp with different values
HasRewrittenTimestamp(series) ==
    \E i, j \in 1..Len(series) :
        i < j /\ series[i][1] = series[j][1] /\ series[i][2] # series[j][2]

Aligning ==
    /\ correlation # Pending
    /\ Len(arguments.data1) >= 3
    /\ Len(arguments.data2) >= 3

\* C28: the aligned points hold each timestamp common to the two series
\* exactly once, in increasing order of timestamp, each with the value of the
\* last point of that timestamp in either series.
Thm_C28_AlignmentLastWriteWins ==
    Aligning =>
        /\ {alignment[k][1] : k \in 1..Len(alignment)}
               = SharedTimestamps(arguments.data1, arguments.data2)
        /\ \A k \in 1..Len(alignment) : \A l \in 1..Len(alignment) :
               k < l => alignment[k][1] < alignment[l][1]
        /\ \A k \in 1..Len(alignment) :
               /\ alignment[k][2] = LastValueAt(arguments.data1, alignment[k][1])
               /\ alignment[k][3] = LastValueAt(arguments.data2, alignment[k][1])

Wit_C28_RewrittenTimestampAligned ==
    /\ Aligning
    /\ HasRewrittenTimestamp(arguments.data2)
    /\ Len(arguments.data2) = 4
    /\ Len(alignment) = 3
    /\ alignment[1][1] = arguments.data2[4][1]
    /\ alignment[1][3] = arguments.data2[4][2]
    /\ alignment[1][3] # arguments.data2[1][2]
    /\ Correlated

----------------------------------------------------------------------------
(* Order of evaluation (TrendAnalyzer.analyze_trends)                       *)

\* the patterns and changes a TrendAnalysis holds for a metric
PatternsIn(result, metric) ==
    {result.patterns[k] : k \in {k \in 1..Len(result.patterns) :
                                    result.patterns[k].metric = metric}}

ChangesIn(result, metric) ==
    {result.significant_changes[k] :
        k \in {k \in 1..Len(result.significant_changes) :
                  result.significant_changes[k].metric = metric}}

\* the positions of the correlations a TrendAnalysis holds for an unordered
\* pair of metrics
PairPositions(result, name1, name2) ==
    {k \in 1..Len(result.correlations) :
        {result.correlations[k].metric1, result.correlations[k].metric2}
            = {name1, name2}}

\* their strength and causality
PairFindings(result, name1, name2) ==
    {<<result.correlations[k].strength, result.correlations[k].causality>> :
        k \in PairPositions(result, name1, name2)}

\* C21: the result of analyze_trends does not depend on the order in which
\* the metrics and the pairs of metrics are processed: for the entries of
\* data in any order every metric gets the same Pattern and the same Change
\* and every unordered pair of metrics the same strength and causality, and
\* every unordered pair is examined exactly once, so it yields one
\* Correlation where detect_correlations returns one and none otherwise.
Thm_C21_OrderIndependent ==
    analysis # Pending =>
        /\ Analysed
        /\ \A i \in 1..Len(data) : \A j \in 1..Len(data) :
               i < j =>
                   Cardinality(PairPositions(Result, data[i][1], data[j][1]))
                       = Len(detect_correlations("", data[i][1], data[j][1],
                                                 data[i][2], data[j][2]).value)
        /\ \A entries \in Reorderings(data) :
               LET other == analyze_trends("user", time_range, entries)
               IN  /\ other.exception = ""
                   /\ \A k \in 1..Len(data) :
                          /\ PatternsIn(other.value[1], data[k][1]) = PatternsFor(data[k][1])
                          /\ ChangesIn(other.value[1], data[k][1]) = ChangesFor(data[k][1])
                   /\ \A i \in 1..Len(data) : \A j \in 1..Len(data) :
                          i < j =>
                              /\ PairFindings(other.value[1], data[i][1], data[j][1])
                                     = PairFindings(Result, data[i][1], data[j][1])
                              /\ Cardinality(PairPositions(other.value[1], data[i][1], data[j][1]))
                                     = Cardinality(PairPositions(Result, data[i][1], data[j][1]))

Wit_C21_ThreeMetricsCuratedPairReversed ==
    /\ Analysed
    /\ Len(data) = 3
    /\ data[1][1] = "stress"
    /\ data[2][1] = "Sleep_Quality"
    /\ data[3][1] = "caffeine"
    /\ Len(Result.patterns) = 3
    /\ Len(Result.significant_changes) = 1
    /\ Len(Result.correlations) = 3
    /\ \E k \in 1..3 :
           /\ Result.correlations[k].metric1 = "Sleep_Quality"
           /\ Result.correlations[k].metric2 = "caffeine"
           /\ Result.correlations[k].causality = "likely"

----------------------------------------------------------------------------
(* Properties of PrivacyController *)

\* the data a log of calls leaves stored for the user: that of the last
\* _store_user_data of the user if no deleteUserData of the user follows it,
\* and {} if the user was never stored or was deleted since
RECURSIVE LastStored(_, _)
LastStored(log, user_id) ==
    IF log = <<>> THEN {}
    ELSE LET last == log[Len(log)]
         IN  IF last.user_id = user_id /\ last.method = "_store_user_data"
             THEN last.data
             ELSE IF last.user_id = user_id /\ last.method = "deleteUserData"
             THEN {}
             ELSE LastStored(SubSeq(log, 1, Len(log) - 1), user_id)

\* C22: after any sequence of calls every exportUserData(u) returns the data
\* of the last _store_user_data(u, d) if no deleteUserData(u) came after it
\* and the empty mapping otherwise, and every deleteUserData(u) returns the
\* status COMPLETED, whether or not u had data.
Thm_C22_ExportReturnsLastStored ==
    \A k \in 1..Len(calls) :
        /\ calls[k].method = "exportUserData" =>
               /\ calls[k].returned.data
                      = LastStored(SubSeq(calls, 1, k - 1), calls[k].user_id)
               /\ calls[k].returned.user_id = calls[k].user_id
        /\ calls[k].method = "deleteUserData" =>
               /\ calls[k].returned.status = "COMPLETED"
               /\ calls[k].returned.user_id = calls[k].user_id

Wit_C22_ExportBeforeAndAfterDelete ==
    /\ Len(calls) = 4
    /\ calls[1].method = "_store_user_data"
    /\ calls[1].data = {<<"test", "data">>}
    /\ calls[2].method = "exportUserData"
    /\ calls[2].returned.data = {<<"test", "data">>}
    /\ calls[3].method = "deleteUserData"
    /\ calls[3].returned.status = "COMPLETED"
    /\ calls[4].method = "exportUserData"
    /\ calls[4].returned.data = {}
    /\ \A k \in 1..4 : calls[k].user_id = "user123"

\* the entry of the user in a store: the data in a one-element sequence, or
\* the empty sequence when the user has none
Entry(store, user_id) ==
    IF user_id \in DOMAIN store THEN <<store[user_id]>> ELSE <<>>

\* one call's effect on the entries of the store
FrameOfCall ==
    calls' # calls =>
        LET call == calls'[Len(calls')]
        IN  \A user_id \in UserIds :
                (call.method = "exportUserData" \/ user_id # call.user_id) =>
                    Entry(_user_data_store', user_id) = Entry(_user_data_store, user_id)

\* C30: deleteUserData(u) and _store_user_data(u, d) leave the entry of every
\* user other than u as it was, and exportUserData leaves every entry as it
\* was and creates none.
Thm_C30_OtherUsersUntouched == [][FrameOfCall]_vars

Wit_C30_DeleteBesideStoredUser ==
    /\ Len(calls) = 4
    /\ calls[1].method = "_store_user_data"
    /\ calls[1].user_id = "user123"
    /\ calls[2].method = "_store_user_data"
    /\ calls[2].user_id = "nonexistent"
    /\ calls[3].method = "deleteUserData"
    /\ calls[3].user_id = "nonexistent"
    /\ calls[4].method = "exportUserData"
    /\ calls[4].user_id = "nonexistent"
    /\ DOMAIN _user_data_store = {"user123"}
    /\ _user_data_store["user123"] = calls[1].data
    /\ calls[1].data # {}

----------------------------------------------------------------------------
(* Properties of InsightGenerator.prioritize_insights *)

\* the key of near-duplicates: the category and the first 20 characters of
\* the title
DuplicateKey(insight) ==
    <<insight.category,
      IF Len(insight.title) <= 20 THEN insight.title ELSE SubSeq(insight.title, 1, 20)>>

\* the first insight of the input with the key
FirstWithKey(key) ==
    candidates[CHOOSE k \in 1..Len(candidates) :
                   /\ DuplicateKey(candidates[k]) = key
                   /\ \A j \in 1..(k - 1) : DuplicateKey(candidates[j]) # key]

\* C23: the output of prioritize_insights holds no two insights of one
\* (category, first 20 characters of the title) key, holds every key of the
\* input, and holds for each key the first insight of the input with that
\* key, also when a later insight of the key has a higher priority.
Thm_C23_FirstOfEachKeyKept ==
    prioritized.exception = "" =>
        LET output == prioritized.value
        IN  /\ \A a \in 1..Len(output) : \A b \in 1..Len(output) :
                   a # b => DuplicateKey(output[a]) # DuplicateKey(output[b])
            /\ {DuplicateKey(output[a]) : a \in 1..Len(output)}
                   = {DuplicateKey(candidates[k]) : k \in 1..Len(candidates)}
            /\ \A a \in 1..Len(output) :
                   output[a] = FirstWithKey(DuplicateKey(output[a]))

Wit_C23_LowPriorityFirstKept ==
    /\ prioritized.exception = ""
    /\ Len(candidates) = 3
    /\ candidates[1].title = "Food Classification Tips"
    /\ candidates[1].priority = "low"
    /\ candidates[2].title = "Hydration Status"
    /\ candidates[2].priority = "medium"
    /\ candidates[3].title = "Food Classification Insight"
    /\ candidates[3].priority = "high"
    /\ candidates[1].category = candidates[3].category
    /\ candidates[2].category = candidates[3].category
    /\ prioritized.value = <<candidates[2], candidates[1]>>

====
